---- MODULE Spec2Model ----
(***************************************************************************)
(* A model of the HDF5 table database backend (mod_tabledb_hdf5).          *)
(*                                                                         *)
(* Spec    one TdbHdf5Connection on one database directory: tblCreate,     *)
(*         tblDelete, tblExists, the introspection calls, insertRow and    *)
(*         readColumn, each with the failures of the library calls it      *)
(*         makes drawn as inputs.                                          *)
(* SpecTx  the transaction driver: every party executes the same table     *)
(*         operation on its own database and the commit hook reduces the   *)
(*         parties' result codes to the global result.                     *)
(*                                                                         *)
(* Strings are sequences of character codes, so that strlen and strcmp     *)
(* are computed and not assumed.  A database is a value                    *)
(*   [dir |-> path -> file or NoFile, m_tableFiles |-> table -> handle,    *)
(*    open |-> the file identifiers the HDF5 library holds open,           *)
(*    badClose |-> H5Fclose was given an identifier that is not open]      *)
(* and every operation of the connection is an operator from a database    *)
(* and the call's arguments to the new database, the result code and the   *)
(* output.                                                                 *)
(***************************************************************************)
EXTENDS Integers, Sequences, FiniteSets, TLC

\* ------------------------------------------------------------------ bounds

\* The largest row_count an insertRow of the model may produce.
MaxRows == 2

\* --------------------------------------------------------------- constants

COL_NAME_SIZE_MAX == 64

OK == "OK"
GENERAL_ERROR == "GENERAL_ERROR"
INVALID_ARGUMENT == "INVALID_ARGUMENT"
IO_ERROR == "IO_ERROR"
TABLE_ALREADY_EXISTS == "TABLE_ALREADY_EXISTS"
TABLE_NOT_FOUND == "TABLE_NOT_FOUND"
CONSENSUS_ERROR == "CONSENSUS_ERROR"
MISSING_FACILITY == "MISSING_FACILITY"
UNKNOWN_ERROR == "UNKNOWN_ERROR"

\* The process was terminated inside the call (no code was returned).
ABORTED == "ABORTED"

NoFile == [absent |-> TRUE]
NoHandle == 0
NoFault == <<"none", 0>>

\* ----------------------------------------------------------------- strings

Min(a, b) == IF a < b THEN a ELSE b

\* strcmp on sequences of character codes: negative, zero or positive.
\* The first position at which a and b differ, the terminating NUL (one
\* past the end) included.
FirstDifference(a, b) ==
    CHOOSE i \in 1..(Min(Len(a), Len(b)) + 1) :
        /\ \A k \in 1..(i - 1) : a[k] = b[k]
        /\ i > Len(a) \/ i > Len(b) \/ a[i] # b[i]

CharAt(a, i) == IF i > Len(a) THEN 0 ELSE a[i]

StrCmpAt(a, b, i) == CharAt(a, i) - CharAt(b, i)

StrCmp(a, b) == IF a = b THEN 0 ELSE StrCmpAt(a, b, FirstDifference(a, b))

\* operator<< of an unsigned integer: its decimal digits.
RECURSIVE Decimal(_)
Decimal(n) ==
    IF n < 10 THEN <<48 + n>> ELSE Decimal(n \div 10) \o <<48 + (n % 10)>>

FILE_EXT == <<46, 104, 53>>

nameToPath(tbl) == tbl \o FILE_EXT

\* ------------------------------------------------------------------- types

\* The comparator's expression on the two strcmp results and the sizes.
LessBy(cmpDomain, cmpName, lsize, rsize) ==
    IF cmpDomain # 0 THEN cmpDomain < 0
    ELSE IF cmpName # 0 THEN cmpName < 0
    ELSE lsize < rsize

SharemindTdbTypeLess(lhs, rhs) ==
    LessBy(StrCmp(lhs.domain, rhs.domain), StrCmp(lhs.name, rhs.name),
           lhs.size, rhs.size)

\* Equivalence under the ordering of the std::map keys.
TypeEquiv(a, b) ==
    a = b \/ (~SharemindTdbTypeLess(a, b) /\ ~SharemindTdbTypeLess(b, a))

isVariableLengthType(type) == type.size = 0

\* "<domain>::<name>::<size>", the name of the type's dataset.
TypeTag(type) ==
    type.domain \o <<58, 58>> \o type.name \o <<58, 58>> \o Decimal(type.size)

\* ---------------------------------------------------------- the input pools

Dom == <<100>>
TypeA == [domain |-> Dom, name |-> <<117, 56>>, size |-> 1]
TypeB == [domain |-> Dom, name |-> <<117, 49, 54>>, size |-> 2]
TypeV == [domain |-> Dom, name |-> <<115, 116, 114>>, size |-> 0]

T1 == <<116>>
TableNames == {T1}
Paths == {nameToPath(t) : t \in TableNames}

NameA == <<97>>
NameB == <<98>>
NameC == <<99>>
LongName == [i \in 1..(COL_NAME_SIZE_MAX + 1) |-> 120]

\* The schemas tblCreate is called with; the last five are invalid.
Schemas ==
    { [names |-> <<NameA, NameB, NameC>>, types |-> <<TypeA, TypeB, TypeA>>],
      [names |-> <<NameA, NameB>>, types |-> <<TypeA, TypeV>>],
      [names |-> <<NameA, NameB>>, types |-> <<TypeA, TypeA>>],
      [names |-> <<>>, types |-> <<>>],
      [names |-> <<NameA, NameA>>, types |-> <<TypeA, TypeB>>],
      [names |-> <<NameA, <<>>>>, types |-> <<TypeA, TypeB>>],
      [names |-> <<LongName>>, types |-> <<TypeA>>],
      [names |-> <<NameA, NameB>>, types |-> <<TypeA>>] }

\* ------------------------------------------------------------ the database

EmptyDb ==
    [dir |-> [p \in Paths |-> NoFile],
     m_tableFiles |-> [t \in TableNames |-> NoHandle],
     open |-> {}, badClose |-> FALSE]

\* The identifier H5Fcreate gives a new file: the least one that no file of
\* the directory and no open handle has.
NewId(db) ==
    LET used == {db.dir[p].id : p \in {q \in Paths : db.dir[q] # NoFile}}
                \cup {db.m_tableFiles[t] : t \in TableNames} \cup db.open
    IN  CHOOSE i \in 1..(Cardinality(used) + 1) :
            i \notin used /\ \A j \in 1..(i - 1) : j \in used

\* A file H5Fcreate has just created: the signature and nothing else.
NewFile(id) ==
    [absent |-> FALSE, id |-> id, isHdf5 |-> TRUE,
     hasMeta |-> FALSE, row_count |-> 0,
     dsets |-> <<>>, hasIndex |-> FALSE, colIndex |-> <<>>]

\* A file that H5Fis_hdf5 does not take for an HDF5 file.
NotHdf5File ==
    [absent |-> FALSE, id |-> 0, isHdf5 |-> FALSE,
     hasMeta |-> FALSE, row_count |-> 0,
     dsets |-> <<>>, hasIndex |-> FALSE, colIndex |-> <<>>]

pathExists(db, path) == db.dir[path] # NoFile

validateTableName(tbl) == tbl # <<>>

validateColumnNames(names) ==
    \A i \in 1..Len(names) :
        Len(names[i]) # 0 /\ Len(names[i]) <= COL_NAME_SIZE_MAX

\* The std::set of the names takes every name: no two compare equal.
NamesUnique(names) ==
    \A i, j \in 1..Len(names) : i # j => StrCmp(names[i], names[j]) # 0

\* H5Fcreate and H5Fopen that succeed: the library holds the identifier open.
Acquired(db, id) == [db EXCEPT !.open = @ \cup {id}]

\* H5Fclose: the identifier is no longer open; closing an identifier that is
\* not open is an error of the caller.
H5Fclose(db, id) ==
    IF id \in db.open THEN [db EXCEPT !.open = @ \ {id}]
    ELSE [db EXCEPT !.badClose = TRUE]

\* A faulty variant: the handle leaves the map and is not closed.
closeTableFileNoClose(db, tbl) ==
    [db EXCEPT !.m_tableFiles[tbl] = NoHandle]

\* closeTableFile: the handle, if any, is closed and leaves the map.
closeTableFile(db, tbl) ==
    IF db.m_tableFiles[tbl] = NoHandle THEN db
    ELSE [H5Fclose(db, db.m_tableFiles[tbl])
            EXCEPT !.m_tableFiles[tbl] = NoHandle]

\* openTableFile: the cached handle, or a new one on the file at the path.
\* openFails: H5Fopen fails.  The result is [db, fileId] with fileId = 0 for
\* H5I_INVALID_HID.
openTableFile(db, tbl, openFails) ==
    IF db.m_tableFiles[tbl] # NoHandle
    THEN [db |-> db, fileId |-> db.m_tableFiles[tbl]]
    ELSE IF openFails \/ db.dir[nameToPath(tbl)] = NoFile
              \/ ~db.dir[nameToPath(tbl)].isHdf5
    THEN [db |-> db, fileId |-> 0]
    ELSE [db |-> [Acquired(db, db.dir[nameToPath(tbl)].id)
                    EXCEPT !.m_tableFiles[tbl] = db.dir[nameToPath(tbl)].id],
          fileId |-> db.dir[nameToPath(tbl)].id]

\* The file a handle is open on.  Within one connection a cached handle and
\* the file at the table's path are the same file whenever both exist
\* (HandleOnFile below), so the file is found at the path.
FileOf(db, tbl) == db.dir[nameToPath(tbl)]

\* ---------------------------------------------------------------- tblCreate

\* std::map<SharemindTdbType *, size_t, SharemindTdbTypeLess>::emplace(type, 1)
\* followed by ++count when the key was there: the map is a sequence of
\* [type, count] in key order.
InsertAt(seq, e, before) ==
    SubSeq(seq, 1, before) \o <<e>> \o SubSeq(seq, before + 1, Len(seq))

TypeMapEmplace(typeMap, type) ==
    IF \E i \in 1..Len(typeMap) : TypeEquiv(typeMap[i].type, type)
    THEN [i \in 1..Len(typeMap) |->
            IF TypeEquiv(typeMap[i].type, type)
            THEN [typeMap[i] EXCEPT !.count = @ + 1]
            ELSE typeMap[i]]
    ELSE InsertAt(typeMap, [type |-> type, count |-> 1],
                  Cardinality({i \in 1..Len(typeMap) :
                        SharemindTdbTypeLess(typeMap[i].type, type)}))

TypeMapCount(typeMap, type) ==
    typeMap[CHOOSE j \in 1..Len(typeMap) :
                TypeEquiv(typeMap[j].type, type)].count

\* The loop over the given types: typeMap, and per column the tag of its
\* dataset and its column in that dataset.
RECURSIVE CheckTypes(_, _, _)

\* colInfoVector.emplace_back(tag, count - 1), count read from the map after
\* the type was counted in.
ColInfoPushBack(rest, type, typeMap, colInfoVector) ==
    CheckTypes(rest, typeMap,
        Append(colInfoVector,
               [tag |-> TypeTag(type),
                col |-> TypeMapCount(typeMap, type) - 1]))

CheckTypes(types, typeMap, colInfoVector) ==
    IF types = <<>>
    THEN [typeMap |-> typeMap, colInfoVector |-> colInfoVector]
    ELSE ColInfoPushBack(Tail(types), Head(types),
                         TypeMapEmplace(typeMap, Head(types)), colInfoVector)

\* The dataset of typeMap entry e, as H5Dcreate and the type attribute
\* leave it: shape [0, count].
NewDataset(e, hasType) ==
    [tag |-> TypeTag(e.type), type |-> e.type, cols |-> e.count,
     rows |-> <<>>, hasType |-> hasType]

\* H5Dcreate of dataset i fails when an object of that name is in the file.
TagTaken(typeMap, i) ==
    \E j \in 1..(i - 1) : TypeTag(typeMap[j].type) = TypeTag(typeMap[i].type)

\* The first dataset H5Dcreate cannot create, or 0.
FirstTagClash(typeMap) ==
    IF \E i \in 1..Len(typeMap) : TagTaken(typeMap, i)
    THEN CHOOSE i \in 1..Len(typeMap) :
            TagTaken(typeMap, i) /\ \A j \in 1..(i - 1) : ~TagTaken(typeMap, j)
    ELSE 0

\* H5Rcreate(fileId, tag): the reference to the object of that name.  A
\* reference is the position of the dataset in creation order.
RefOfTag(dsets, tag) ==
    CHOOSE j \in 1..Len(dsets) : dsets[j].tag = tag

\* A faulty variant: one index entry per dataset instead of one per column.
SerializeColumnIndexPerType(names, colInfoVector, dsets) ==
    [i \in 1..Len(dsets) |->
        [name |-> names[i], dataset_ref |-> i, dataset_column |-> 0]]

SerializeColumnIndex(names, colInfoVector, dsets) ==
    [i \in 1..Len(names) |->
        [name |-> names[i],
         dataset_ref |-> RefOfTag(dsets, colInfoVector[i].tag),
         dataset_column |-> colInfoVector[i].col]]

\* The column index dataset as H5Dcreate leaves it before it is written.
UnwrittenColumnIndex(n) ==
    [i \in 1..n |-> [name |-> <<>>, dataset_ref |-> 0, dataset_column |-> 0]]

\* The faults of the library calls tblCreate makes once the file exists, in
\* the order of the calls, for ntypes unique types.
CreateSteps(ntypes) ==
    <<<<"types", 0>>, <<"meta", 0>>>>
        \o [k \in 1..(2 * ntypes) |->
                IF k % 2 = 1 THEN <<"dset", (k + 1) \div 2>>
                ELSE <<"dsetAttr", k \div 2>>]
        \o <<<<"index", 0>>, <<"indexWrite", 0>>>>

CreateStepNames ==
    {"types", "meta", "dset", "dsetAttr", "index", "indexWrite"}

CreateFaultCode(f) ==
    IF f[1] \in {"dsetAttr", "indexWrite"} THEN IO_ERROR ELSE GENERAL_ERROR

\* The number of datasets created before the failing call f.
DatasetsCreated(ntypes, f) ==
    IF f[1] \in {"types", "meta"} THEN 0
    ELSE IF f[1] = "dset" THEN f[2] - 1
    ELSE IF f[1] = "dsetAttr" THEN f[2]
    ELSE ntypes

CreateDatasets(typeMap, nd, f) ==
    [i \in 1..nd |->
        NewDataset(typeMap[i], ~(f[1] = "dsetAttr" /\ f[2] = i))]

WriteFile(id, names, colInfoVector, dsets, f) ==
    [NewFile(id) EXCEPT
        !.hasMeta = f[1] \notin {"types", "meta"},
        !.dsets = dsets,
        !.hasIndex = f[1] \in {"indexWrite", "none"},
        !.colIndex =
            IF f[1] = "none"
            THEN SerializeColumnIndex(names, colInfoVector, dsets)
            ELSE IF f[1] = "indexWrite"
            THEN UnwrittenColumnIndex(Len(names))
            ELSE <<>>]

BuildFileOf(id, names, ct, f) ==
    WriteFile(id, names, ct.colInfoVector,
        CreateDatasets(ct.typeMap, DatasetsCreated(Len(ct.typeMap), f), f), f)

\* The file as the calls before the failing one (f), or all of them
\* (f = NoFault), have written it.
BuildFile(id, names, types, f) ==
    BuildFileOf(id, names, CheckTypes(types, <<>>, <<>>), f)

StepPos(steps, g) == CHOOSE k \in 1..Len(steps) : steps[k] = g

FirstFault(steps, f, clash) ==
    IF clash = 0 THEN f
    ELSE IF f = NoFault THEN <<"dset", clash>>
    ELSE IF StepPos(steps, f) < StepPos(steps, <<"dset", clash>>) THEN f
    ELSE <<"dset", clash>>

FirstFaultOf(typeMap, f) ==
    FirstFault(CreateSteps(Len(typeMap)), f, FirstTagClash(typeMap))

\* The fault that stops tblCreate: the given one, or the name clash of two
\* datasets if H5Dcreate meets it first.
EffectiveCreateFault(types, f) ==
    FirstFaultOf(CheckTypes(types, <<>>, <<>>).typeMap, f)

\* A faulty variant: the cleanup handler closes the file and does not remove
\* it.
tblCreateFileNoRemove(db1, tbl, file, g, removeFails) ==
    [db |-> IF g # NoFault
            THEN [H5Fclose(Acquired(db1, file.id), file.id)
                    EXCEPT !.dir[nameToPath(tbl)] = file]
            ELSE [Acquired(db1, file.id)
                    EXCEPT !.dir[nameToPath(tbl)] = file,
                           !.m_tableFiles[tbl] = file.id],
     code |-> IF g # NoFault THEN CreateFaultCode(g) ELSE OK]

\* tblCreate from H5Fcreate's success on.  db1: the database after
\* closeTableFile; file: the file as the calls up to the failing one, g,
\* wrote it.  On failure the cleanup handler closes the file and removes it.
tblCreateFile(db1, tbl, file, g, removeFails) ==
    IF g # NoFault
    THEN [db |-> IF removeFails
                 THEN [H5Fclose(Acquired(db1, file.id), file.id)
                         EXCEPT !.dir[nameToPath(tbl)] = file]
                 ELSE H5Fclose(Acquired(db1, file.id), file.id),
          code |-> CreateFaultCode(g)]
    ELSE [db |-> [Acquired(db1, file.id)
                    EXCEPT !.dir[nameToPath(tbl)] = file,
                           !.m_tableFiles[tbl] = file.id],
          code |-> OK]

tblCreateAt(db1, tbl, names, types, g, removeFails) ==
    tblCreateFile(db1, tbl, BuildFile(NewId(db1), names, types, g), g,
                  removeFails)

\* A faulty variant: equal column names are accepted.
BadArgumentButEqualNames(names, types, tbl) ==
    \/ names = <<>>
    \/ types = <<>>
    \/ Len(names) # Len(types)
    \/ ~validateTableName(tbl)
    \/ ~validateColumnNames(names)

BadArgument(names, types, tbl) ==
    \/ names = <<>>
    \/ types = <<>>
    \/ Len(names) # Len(types)
    \/ ~validateTableName(tbl)
    \/ ~validateColumnNames(names)
    \/ ~NamesUnique(names)

\* A faulty variant: the cached handle is closed before the path is looked
\* up.
tblCreateCloseFirst(db, tbl, names, types, f, removeFails) ==
    IF BadArgument(names, types, tbl)
    THEN [db |-> db, code |-> INVALID_ARGUMENT]
    ELSE IF f = <<"pathExists", 0>>
    THEN [db |-> closeTableFile(db, tbl), code |-> GENERAL_ERROR]
    ELSE IF pathExists(db, nameToPath(tbl))
    THEN [db |-> closeTableFile(db, tbl), code |-> TABLE_ALREADY_EXISTS]
    ELSE IF f = <<"H5Fcreate", 0>>
    THEN [db |-> closeTableFile(db, tbl), code |-> IO_ERROR]
    ELSE tblCreateAt(closeTableFile(db, tbl), tbl, names, types,
                     EffectiveCreateFault(types, f), removeFails)

\* tblCreate.  f: the library call that fails (NoFault: none); removeFails:
\* fs::remove of the creation rollback throws.
tblCreate(db, tbl, names, types, f, removeFails) ==
    IF BadArgument(names, types, tbl)
    THEN [db |-> db, code |-> INVALID_ARGUMENT]
    ELSE IF f = <<"pathExists", 0>> THEN [db |-> db, code |-> GENERAL_ERROR]
    ELSE IF pathExists(db, nameToPath(tbl))
    THEN [db |-> db, code |-> TABLE_ALREADY_EXISTS]
    ELSE IF f = <<"H5Fcreate", 0>>
    THEN [db |-> closeTableFile(db, tbl), code |-> IO_ERROR]
    ELSE tblCreateAt(closeTableFile(db, tbl), tbl, names, types,
                     EffectiveCreateFault(types, f), removeFails)

StepsOf(typeMap) ==
    {CreateSteps(Len(typeMap))[k] : k \in 1..(2 * Len(typeMap) + 4)}

CreateFaults(types) ==
    {NoFault, <<"pathExists", 0>>, <<"H5Fcreate", 0>>}
        \cup StepsOf(CheckTypes(types, <<>>, <<>>).typeMap)

\* ---------------------------------------------------------------- tblDelete

\* f = <<"remove", 0>>: boost::filesystem::remove throws.
tblDelete(db, tbl, f) ==
    IF ~validateTableName(tbl) THEN [db |-> db, code |-> INVALID_ARGUMENT]
    ELSE IF f = <<"remove", 0>> THEN [db |-> db, code |-> IO_ERROR]
    ELSE IF ~pathExists(db, nameToPath(tbl))
    THEN [db |-> db, code |-> TABLE_NOT_FOUND]
    ELSE [db |-> [db EXCEPT !.dir[nameToPath(tbl)] = NoFile], code |-> OK]

\* ---------------------------------------------------------------- tblExists

\* A faulty variant: a file that is not an HDF5 file is no table, and no
\* error.
tblExistsFalseIfNotHdf5(db, tbl, f, status0) ==
    IF ~validateTableName(tbl)
    THEN [code |-> INVALID_ARGUMENT, status |-> status0]
    ELSE IF f = <<"pathExists", 0>>
    THEN [code |-> GENERAL_ERROR, status |-> status0]
    ELSE IF ~pathExists(db, nameToPath(tbl))
    THEN [code |-> OK, status |-> FALSE]
    ELSE IF f = <<"H5Fis_hdf5", 0>>
    THEN [code |-> GENERAL_ERROR, status |-> TRUE]
    ELSE [code |-> OK, status |-> db.dir[nameToPath(tbl)].isHdf5]

\* status0: the caller's value of the out-parameter, kept where the code
\* does not assign it.
tblExists(db, tbl, f, status0) ==
    IF ~validateTableName(tbl)
    THEN [code |-> INVALID_ARGUMENT, status |-> status0]
    ELSE IF f = <<"pathExists", 0>>
    THEN [code |-> GENERAL_ERROR, status |-> status0]
    ELSE IF ~pathExists(db, nameToPath(tbl))
    THEN [code |-> OK, status |-> FALSE]
    ELSE IF f = <<"H5Fis_hdf5", 0>> \/ ~db.dir[nameToPath(tbl)].isHdf5
    THEN [code |-> GENERAL_ERROR, status |-> TRUE]
    ELSE [code |-> OK, status |-> TRUE]

\* ------------------------------------------------------------ introspection

\* The common opening of the calls on an existing table: validateTableName,
\* tblExists, openTableFile.  o: what openTableFile returned.
OpenedFile(db, o) ==
    IF o.fileId = 0 THEN [db |-> db, code |-> IO_ERROR]
    ELSE [db |-> o.db, code |-> OK]

\* A faulty variant: a table that does not exist is opened, which fails.
OpenExistingNoCheck(db, tbl, f, e) ==
    IF e.code # OK THEN [db |-> db, code |-> e.code]
    ELSE OpenedFile(db, openTableFile(db, tbl,
                            f = <<"H5Fopen", 0>> \/ ~e.status))

\* e: what tblExists returned.
OpenExisting(db, tbl, f, e) ==
    IF e.code # OK THEN [db |-> db, code |-> e.code]
    ELSE IF ~e.status THEN [db |-> db, code |-> TABLE_NOT_FOUND]
    ELSE OpenedFile(db, openTableFile(db, tbl, f = <<"H5Fopen", 0>>))

OpenTable(db, tbl, f) ==
    IF ~validateTableName(tbl) THEN [db |-> db, code |-> INVALID_ARGUMENT]
    ELSE OpenExisting(db, tbl, f, tblExists(db, tbl, f, FALSE))

getColumnCount(file, f) ==
    IF ~file.hasIndex \/ f = <<"getColumnCount", 0>>
    THEN [code |-> GENERAL_ERROR, out |-> 0]
    ELSE [code |-> OK, out |-> Len(file.colIndex)]

getRowCount(file, f) ==
    IF ~file.hasMeta THEN [code |-> GENERAL_ERROR, out |-> 0]
    ELSE IF f = <<"getRowCount", 0>> THEN [code |-> IO_ERROR, out |-> 0]
    ELSE [code |-> OK, out |-> file.row_count]

\* H5Rdereference and the check that the object is a dataset.
ValidRef(file, ref) == ref \in 1..Len(file.dsets)

\* The result of a call: the database it leaves, its code and its output.
Ret(db, code, out) == [db |-> db, code |-> code, out |-> out]

\* A call on the table opened as o: the opening's error, or the result r of
\* the call's body on the open file.
OnOpened(o, r, none) ==
    IF o.code # OK THEN Ret(o.db, o.code, none) ELSE Ret(o.db, r.code, r.out)

Failed(code) == [code |-> code, out |-> <<>>]

tblColCount(db, tbl, f) ==
    OnOpened(OpenTable(db, tbl, f), getColumnCount(FileOf(db, tbl), f), 0)

tblRowCount(db, tbl, f) ==
    OnOpened(OpenTable(db, tbl, f), getRowCount(FileOf(db, tbl), f), 0)

\* The names of the column index, in its order.
ColNamesOf(file, f) ==
    IF getColumnCount(file, f).code # OK
    THEN Failed(getColumnCount(file, f).code)
    ELSE IF f = <<"H5Dread", 0>> THEN Failed(IO_ERROR)
    ELSE [code |-> OK,
          out |-> [i \in 1..Len(file.colIndex) |-> file.colIndex[i].name]]

tblColNames(db, tbl, f) ==
    OnOpened(OpenTable(db, tbl, f), ColNamesOf(FileOf(db, tbl), f), <<>>)

\* A faulty variant: the types of the datasets, one per unique type, instead
\* of one per column.
ColTypesOfDatasets(file, f) ==
    IF getColumnCount(file, f).code # OK
    THEN Failed(getColumnCount(file, f).code)
    ELSE IF f \in {<<"H5Dread", 0>>, <<"H5Aread", 0>>} THEN Failed(IO_ERROR)
    ELSE [code |-> OK,
          out |-> [i \in 1..Len(file.dsets) |-> file.dsets[i].type]]

\* The type attribute of the dataset each column's reference leads to.
ColTypesOf(file, f) ==
    IF getColumnCount(file, f).code # OK
    THEN Failed(getColumnCount(file, f).code)
    ELSE IF f = <<"H5Dread", 0>> THEN Failed(IO_ERROR)
    ELSE IF \E i \in 1..Len(file.colIndex) :
                ~ValidRef(file, file.colIndex[i].dataset_ref)
                \/ ~file.dsets[file.colIndex[i].dataset_ref].hasType
    THEN Failed(GENERAL_ERROR)
    ELSE IF f = <<"H5Aread", 0>> THEN Failed(IO_ERROR)
    ELSE [code |-> OK,
          out |-> [i \in 1..Len(file.colIndex) |->
                      file.dsets[file.colIndex[i].dataset_ref].type]]

tblColTypes(db, tbl, f) ==
    OnOpened(OpenTable(db, tbl, f), ColTypesOf(FileOf(db, tbl), f), <<>>)

\* The failures of the calls on an existing table: those of the common
\* opening, and all of them.
OpenFaults ==
    {NoFault, <<"pathExists", 0>>, <<"H5Fis_hdf5", 0>>, <<"H5Fopen", 0>>}

ReadFaults ==
    OpenFaults \cup {<<"getColumnCount", 0>>, <<"getRowCount", 0>>,
                     <<"H5Dread", 0>>, <<"H5Aread", 0>>}

\* ---------------------------------------------------------------- insertRow

validateValues(values) ==
    \A i \in 1..Len(values) :
        isVariableLengthType(values[i].type)
        \/ (Len(values[i].buffer) # 0
            /\ Len(values[i].buffer) % values[i].type.size = 0)

\* std::swap_ranges of elements a and c (vsize bytes each) of the block.
SwapElements(blk, a, c, vsize) ==
    [k \in 1..Len(blk) |->
        IF (k - 1) \div vsize = a THEN blk[c * vsize + ((k - 1) % vsize) + 1]
        ELSE IF (k - 1) \div vsize = c THEN blk[a * vsize + ((k - 1) % vsize) + 1]
        ELSE blk[k]]

\* The do-while of transposeBlock: follows the cycle that starts at element c.
RECURSIVE TransposeCycle(_, _, _, _, _, _, _)
TransposeCycle(blk, visited, a, c, n, mn1, vsize) ==
    LET a2 == IF a = mn1 THEN mn1 ELSE (n * a) % mn1
        blk2 == SwapElements(blk, a2, c, vsize)
        visited2 == visited \cup {a2}
    IN  IF a2 # c
        THEN TransposeCycle(blk2, visited2, a2, c, n, mn1, vsize)
        ELSE [blk |-> blk2, visited |-> visited2]

\* The while loop of transposeBlock; c is the element the cycle pointer is at.
RECURSIVE TransposeLoop(_, _, _, _, _, _)
TransposeLoop(blk, visited, c, n, mn1, vsize) ==
    IF ~((c + 1) * vsize < Len(blk)) THEN blk
    ELSE IF (c + 1) \in visited
    THEN TransposeLoop(blk, visited, c + 1, n, mn1, vsize)
    ELSE LET r == TransposeCycle(blk, visited, c + 1, c + 1, n, mn1, vsize)
         IN  TransposeLoop(r.blk, r.visited, c + 1, n, mn1, vsize)

\* A faulty variant: the cycles are followed with the number of rows m in
\* place of the number of columns n.
transposeBlockByRows(blk, m, vsize) ==
    LET size == Len(blk)
        mn1 == size \div vsize - 1
    IN  TransposeLoop(blk, {}, 0, m, mn1, vsize)

\* transposeBlock(first, last, m, vsize) on the bytes first..last.
transposeBlock(blk, m, vsize) ==
    LET size == Len(blk)
        mn1 == size \div vsize - 1
        n == size \div (m * vsize)
    IN  TransposeLoop(blk, {}, 0, n, mn1, vsize)

\* The values of one type over all batches, in the order of the batches and
\* of the values in them, each with its batch's valueAsColumn.
RECURSIVE FlattenBatches(_, _)
FlattenBatches(valuesBatch, vacBatch) ==
    IF valuesBatch = <<>> THEN <<>>
    ELSE [i \in 1..Len(Head(valuesBatch)) |->
             [val |-> Head(valuesBatch)[i], asColumn |-> Head(vacBatch)]]
         \o FlattenBatches(Tail(valuesBatch), Tail(vacBatch))

RECURSIVE SelectOfType(_, _)
SelectOfType(flat, type) ==
    IF flat = <<>> THEN <<>>
    ELSE IF TypeEquiv(Head(flat).val.type, type)
    THEN <<Head(flat)>> \o SelectOfType(Tail(flat), type)
    ELSE SelectOfType(Tail(flat), type)

TypeValues(valuesBatch, vacBatch, type) ==
    SelectOfType(FlattenBatches(valuesBatch, vacBatch), type)

\* typeCounts: the number of columns of each type of the table, from the
\* dataset references of the column index.
TypeCount(file, type) ==
    Cardinality({i \in 1..Len(file.colIndex) :
        TypeEquiv(file.dsets[file.colIndex[i].dataset_ref].type, type)})

NumScalars(val) == Len(val.buffer) \div val.type.size

\* The row count of a batch, from its first value.
BatchRowCount(values, asColumn) ==
    IF ~asColumn \/ isVariableLengthType(values[1].type) THEN 1
    ELSE NumScalars(values[1])

\* The number of columns a value stands for.
ValueColCount(val, asColumn) ==
    IF isVariableLengthType(val.type) THEN 1
    ELSE IF asColumn THEN 1
    ELSE NumScalars(val)

RECURSIVE SumSeq(_)
SumSeq(s) == IF s = <<>> THEN 0 ELSE Head(s) + SumSeq(Tail(s))

\* The types of a batch in the order of the std::map batchTypeCount.
RECURSIVE SortTypes(_)
SortTypes(S) ==
    IF S = {} THEN <<>>
    ELSE LET t == CHOOSE x \in S :
                    \A y \in S \ {x} : SharemindTdbTypeLess(x, y)
         IN  <<t>> \o SortTypes(S \ {t})

\* The first loop over the values of a batch: a fixed length value of a type
\* the table has no column of, or a value that does not have the batch's
\* row count, is refused.
ValueBad(file, val, asColumn, batchRowCount) ==
    IF isVariableLengthType(val.type)
    THEN asColumn /\ batchRowCount # 1
    ELSE TypeCount(file, val.type) = 0
         \/ (asColumn /\ NumScalars(val) # batchRowCount)

BatchColCount(values, asColumn) ==
    SumSeq([i \in 1..Len(values) |-> ValueColCount(values[i], asColumn)])

BatchTypeCount(values, asColumn, type) ==
    SumSeq([i \in 1..Len(values) |->
        IF TypeEquiv(values[i].type, type)
        THEN ValueColCount(values[i], asColumn) ELSE 0])

\* The comparison of batchTypeCount with typeCounts for one type.
TypeBad(file, values, asColumn, type) ==
    TypeCount(file, type) = 0
    \/ BatchTypeCount(values, asColumn, type) # TypeCount(file, type)

FirstBadType(file, values, asColumn, types) ==
    CHOOSE j \in 1..Len(types) :
        /\ TypeBad(file, values, asColumn, types[j])
        /\ \A h \in 1..(j - 1) : ~TypeBad(file, values, asColumn, types[h])

\* The loop over batchTypeCount.  The type is looked up in typeCounts and
\* the iterator is read without a comparison with end(): "UB" where the
\* table has no column of the type.
BatchTypesCheck(file, values, asColumn, types) ==
    IF \E k \in 1..Len(types) : TypeBad(file, values, asColumn, types[k])
    THEN IF TypeCount(file,
                types[FirstBadType(file, values, asColumn, types)]) = 0
         THEN "UB"
         ELSE INVALID_ARGUMENT
    ELSE OK

\* The check of one batch against the table: OK, INVALID_ARGUMENT, or "UB".
BatchCheck(file, values, asColumn, colCount) ==
    IF \E i \in 1..Len(values) :
            ValueBad(file, values[i], asColumn,
                     BatchRowCount(values, asColumn))
    THEN INVALID_ARGUMENT
    ELSE IF BatchColCount(values, asColumn) # colCount THEN INVALID_ARGUMENT
    ELSE BatchTypesCheck(file, values, asColumn,
            SortTypes({values[i].type : i \in 1..Len(values)}))

RECURSIVE BatchesCheck(_, _, _, _)

NextBatch(file, valuesBatch, vacBatch, colCount, c) ==
    IF c # OK THEN c
    ELSE BatchesCheck(file, valuesBatch, vacBatch, colCount)

\* The loop over the batches: the code of the first batch that fails.
BatchesCheck(file, valuesBatch, vacBatch, colCount) ==
    IF valuesBatch = <<>> THEN OK
    ELSE NextBatch(file, Tail(valuesBatch), Tail(vacBatch), colCount,
            BatchCheck(file, Head(valuesBatch), Head(vacBatch), colCount))

InsertedRowCount(valuesBatch, vacBatch) ==
    SumSeq([b \in 1..Len(valuesBatch) |->
                BatchRowCount(valuesBatch[b], vacBatch[b])])

\* A faulty variant: the block of columns is left as it was given.
TransposeFromNone(buffer, tOff, dsetCols, vsize) == buffer

\* transposeBlock on the bytes of the buffer from offset tOff to the end.
TransposeFrom(buffer, tOff, dsetCols, vsize) ==
    SubSeq(buffer, 1, tOff)
        \o transposeBlock(SubSeq(buffer, tOff + 1, Len(buffer)),
                          (Len(buffer) - tOff) \div (vsize * dsetCols), vsize)

RECURSIVE CopyAndTranspose(_, _, _, _, _, _)

\* One value of the loop: the block of columns before it is transposed if
\* the value ends it, then the value is copied to the end of the buffer.
CopyValue(tv, buffer, tOff, wasAsColumn, dsetCols, vsize) ==
    CopyAndTranspose(Tail(tv),
        (IF wasAsColumn /\ ~Head(tv).asColumn
         THEN TransposeFrom(buffer, tOff, dsetCols, vsize)
         ELSE buffer) \o Head(tv).val.buffer,
        tOff, Head(tv).asColumn, dsetCols, vsize)

\* The loop that copies the values of a fixed length type with more than one
\* column into the buffer and transposes the blocks given as columns;
\* offsets count bytes from 0.
CopyAndTranspose(tv, buffer, transposeOffset, lastAsColumn, dsetCols, vsize) ==
    IF tv = <<>>
    THEN IF lastAsColumn
         THEN TransposeFrom(buffer, transposeOffset, dsetCols, vsize)
         ELSE buffer
    ELSE CopyValue(tv, buffer,
            IF ~lastAsColumn /\ Head(tv).asColumn THEN Len(buffer)
            ELSE transposeOffset,
            lastAsColumn, dsetCols, vsize)

RECURSIVE ConcatBuffers(_)
ConcatBuffers(tv) ==
    IF tv = <<>> THEN <<>>
    ELSE Head(tv).val.buffer \o ConcatBuffers(Tail(tv))

\* The buffer H5Dwrite is given for a fixed length type.
FixedBuffer(tv, dsetCols, vsize) ==
    IF Len(tv) = 1 THEN tv[Len(tv)].val.buffer
    ELSE IF dsetCols > 1
    THEN CopyAndTranspose(tv, <<>>, 0, FALSE, dsetCols, vsize)
    ELSE ConcatBuffers(tv)

\* A byte H5Dwrite reads past the end of the buffer it was given.
Garbage == -1

\* The n elements of vsize bytes H5Dwrite reads from the buffer.
ElementsOf(buffer, vsize, n) ==
    [e \in 1..n |->
        [k \in 1..vsize |->
            IF (e - 1) * vsize + k <= Len(buffer)
            THEN buffer[(e - 1) * vsize + k]
            ELSE Garbage]]

\* The elements H5Dwrite writes, row by row: nrows * dsetCols cells.
WriteElements(tv, type, nrows, dsetCols) ==
    IF isVariableLengthType(type)
    THEN [e \in 1..(nrows * dsetCols) |->
            IF e <= Len(tv) THEN tv[e].val.buffer ELSE <<Garbage>>]
    ELSE ElementsOf(FixedBuffer(tv, dsetCols, type.size), type.size,
                    nrows * dsetCols)

\* The fill value of the rows H5Dset_extent adds.
FillCell(type) ==
    IF isVariableLengthType(type) THEN <<>> ELSE [k \in 1..type.size |-> 0]

\* A faulty variant: the dataset that is resized loses its type attribute.
SetExtentDropsType(dset, nrows, cols) ==
    [dset EXCEPT
        !.hasType = FALSE,
        !.cols = cols,
        !.rows = [r \in 1..nrows |->
                    [c \in 1..cols |->
                        IF r <= Len(dset.rows) /\ c <= dset.cols
                        THEN dset.rows[r][c] ELSE FillCell(dset.type)]]]

\* H5Dset_extent(oId, {nrows, cols}).
SetExtent(dset, nrows, cols) ==
    [dset EXCEPT
        !.cols = cols,
        !.rows = [r \in 1..nrows |->
                    [c \in 1..cols |->
                        IF r <= Len(dset.rows) /\ c <= dset.cols
                        THEN dset.rows[r][c] ELSE FillCell(dset.type)]]]

\* A faulty variant: the hyperslab starts at row 0 instead of at rowCount.
WriteRowsAtStart(dset, rowCount, nrows, elems) ==
    [dset EXCEPT
        !.rows = [r \in 1..Len(dset.rows) |->
                    IF r <= nrows
                    THEN [c \in 1..dset.cols |->
                            elems[(r - 1) * dset.cols + c]]
                    ELSE dset.rows[r]]]

\* H5Dwrite to the hyperslab of rows rowCount+1..rowCount+nrows.
WriteRows(dset, rowCount, nrows, elems) ==
    [dset EXCEPT
        !.rows = [r \in 1..Len(dset.rows) |->
                    IF r > rowCount /\ r <= rowCount + nrows
                    THEN [c \in 1..dset.cols |->
                            elems[(r - rowCount - 1) * dset.cols + c]]
                    ELSE dset.rows[r]]]

\* A faulty variant: the dataset is extended by one row, whatever the number
\* of rows the call inserts.
WriteDatasetOneRow(dset, tv, rowCount, inserted, dsetCols, writeFails) ==
    IF writeFails THEN SetExtent(dset, rowCount + 1, dsetCols)
    ELSE WriteRows(SetExtent(dset, rowCount + 1, dsetCols), rowCount, 1,
                   WriteElements(tv, dset.type, inserted, dsetCols))

\* A faulty variant: the dataset is extended by the inserted rows from the
\* extent it has, not from rowCount.
WriteDatasetFromExtent(dset, tv, rowCount, inserted, dsetCols, writeFails) ==
    IF writeFails THEN SetExtent(dset, Len(dset.rows) + inserted, dsetCols)
    ELSE WriteRows(SetExtent(dset, Len(dset.rows) + inserted, dsetCols),
                   rowCount, inserted,
                   WriteElements(tv, dset.type, inserted, dsetCols))

\* One pass of the write loop: the dataset is extended to the new row count
\* and, unless H5Dwrite fails, the values of its type are written.
WriteDataset(dset, tv, rowCount, inserted, dsetCols, writeFails) ==
    IF writeFails THEN SetExtent(dset, rowCount + inserted, dsetCols)
    ELSE WriteRows(SetExtent(dset, rowCount + inserted, dsetCols),
                   rowCount, inserted,
                   WriteElements(tv, dset.type, inserted, dsetCols))

\* The datasets after the write loop has handled datasets 1..upto; the
\* write to dataset failedWrite (0: none) failed after it was extended.
WriteLoop(file, valuesBatch, vacBatch, rowCount, inserted, upto, failedWrite) ==
    [i \in 1..Len(file.dsets) |->
        IF i > upto THEN file.dsets[i]
        ELSE WriteDataset(file.dsets[i],
                TypeValues(valuesBatch, vacBatch, file.dsets[i].type),
                rowCount, inserted, TypeCount(file, file.dsets[i].type),
                i = failedWrite)]

\* A faulty variant: the cleanup handler leaves out the dataset registered
\* last, the one the failing call was made on.
RollbackButLast(file, dsets, rowCount, registered, rf) ==
    [i \in 1..Len(dsets) |->
        IF i < registered /\ (rf = 0 \/ i < rf)
        THEN SetExtent(dsets[i], rowCount, TypeCount(file, dsets[i].type))
        ELSE dsets[i]]

\* The cleanup handler: the datasets 1..registered were extended and are set
\* back to {rowCount, cols} in turn; restoring dataset rf (0: none) fails
\* and ends the loop.
Rollback(file, dsets, rowCount, registered, rf) ==
    [i \in 1..Len(dsets) |->
        IF i <= registered /\ (rf = 0 \/ i < rf)
        THEN SetExtent(dsets[i], rowCount, TypeCount(file, dsets[i].type))
        ELSE dsets[i]]

InsertRet(db, code, rollbackFailed) ==
    [db |-> db, code |-> code, rollbackFailed |-> rollbackFailed]

\* The number of datasets the write loop handles before the failing call.
DatasetsHandled(nd, f) ==
    IF f[1] = "extend" THEN f[2] - 1
    ELSE IF f[1] = "write" THEN f[2]
    ELSE nd

\* A faulty variant: row_count is incremented instead of set to
\* rowCount + insertedRowCount.
insertRowEndIncrement(db, path, file, written, rowCount, inserted, upto, f, rf) ==
    IF f[1] \in {"extend", "write", "setRowCount"}
    THEN InsertRet([db EXCEPT !.dir[path].dsets =
                        Rollback(file, written, rowCount, upto, rf)],
                   IF f[1] = "extend" THEN GENERAL_ERROR ELSE IO_ERROR,
                   rf # 0 /\ rf <= upto)
    ELSE InsertRet([db EXCEPT !.dir[path].dsets = written,
                              !.dir[path].row_count = rowCount + 1],
                   OK, FALSE)

\* A faulty variant: row_count is written before the datasets are, and a
\* failure after it leaves it written.
insertRowEndCountFirst(db, path, file, written, rowCount, inserted, upto, f, rf) ==
    IF f[1] \in {"extend", "write", "setRowCount"}
    THEN InsertRet([db EXCEPT !.dir[path].dsets =
                        Rollback(file, written, rowCount, upto, rf),
                              !.dir[path].row_count =
                        IF f[1] = "setRowCount" THEN rowCount
                        ELSE rowCount + inserted],
                   IF f[1] = "extend" THEN GENERAL_ERROR ELSE IO_ERROR,
                   rf # 0 /\ rf <= upto)
    ELSE InsertRet([db EXCEPT !.dir[path].dsets = written,
                              !.dir[path].row_count = rowCount + inserted],
                   OK, FALSE)

\* The end of insertRow: on a failure the cleanup handler runs over the
\* upto datasets that were extended; otherwise row_count is updated.
insertRowEnd(db, path, file, written, rowCount, inserted, upto, f, rf) ==
    IF f[1] \in {"extend", "write", "setRowCount"}
    THEN InsertRet([db EXCEPT !.dir[path].dsets =
                        Rollback(file, written, rowCount, upto, rf)],
                   IF f[1] = "extend" THEN GENERAL_ERROR ELSE IO_ERROR,
                   rf # 0 /\ rf <= upto)
    ELSE InsertRet([db EXCEPT !.dir[path].dsets = written,
                              !.dir[path].row_count = rowCount + inserted],
                   OK, FALSE)

insertRowWrite(db, tbl, file, valuesBatch, vacBatch, inserted, upto, f, rf) ==
    insertRowEnd(db, nameToPath(tbl), file,
        WriteLoop(file, valuesBatch, vacBatch, file.row_count, inserted, upto,
                  IF f[1] = "write" THEN f[2] ELSE 0),
        file.row_count, inserted, upto, f, rf)

\* chk: what the check of the batches against the table gave.
insertRowChecked(db, tbl, file, valuesBatch, vacBatch, chk, f, rf, ub) ==
    IF chk = "UB"
    THEN IF ub = "abort"
         THEN InsertRet([db EXCEPT !.m_tableFiles =
                            [t \in TableNames |-> NoHandle],
                                   !.open = {}], ABORTED, FALSE)
         ELSE InsertRet(db, INVALID_ARGUMENT, FALSE)
    ELSE IF chk # OK THEN InsertRet(db, chk, FALSE)
    ELSE insertRowWrite(db, tbl, file, valuesBatch, vacBatch,
            InsertedRowCount(valuesBatch, vacBatch),
            DatasetsHandled(Len(file.dsets), f), f, rf)

\* insertRow on the open file: the row count, the column count and the
\* types of the columns are read first.
insertRowInto(db, tbl, file, valuesBatch, vacBatch, f, rf, ub) ==
    IF getRowCount(file, f).code # OK
    THEN InsertRet(db, getRowCount(file, f).code, FALSE)
    ELSE IF getColumnCount(file, f).code # OK
    THEN InsertRet(db, getColumnCount(file, f).code, FALSE)
    ELSE IF f = <<"H5Dread", 0>> THEN InsertRet(db, IO_ERROR, FALSE)
    ELSE IF \E i \in 1..Len(file.colIndex) :
                ~ValidRef(file, file.colIndex[i].dataset_ref)
                \/ ~file.dsets[file.colIndex[i].dataset_ref].hasType
    THEN InsertRet(db, GENERAL_ERROR, FALSE)
    ELSE insertRowChecked(db, tbl, file, valuesBatch, vacBatch,
            BatchesCheck(file, valuesBatch, vacBatch, Len(file.colIndex)),
            f, rf, ub)

\* o: what the opening of the table returned.
insertRowOpened(o, tbl, valuesBatch, vacBatch, f, rf, ub) ==
    IF o.code # OK THEN InsertRet(o.db, o.code, FALSE)
    ELSE insertRowInto(o.db, tbl, FileOf(o.db, tbl), valuesBatch, vacBatch,
                       f, rf, ub)

\* insertRow.  f: the library call that fails; rf: the dataset whose extent
\* the cleanup handler fails to restore (0: none); ub: what the read of
\* typeCounts.end() does, "abort" or "mismatch".
insertRow(db, tbl, valuesBatch, vacBatch, f, rf, ub) ==
    IF \/ valuesBatch = <<>>
       \/ Len(valuesBatch) # Len(vacBatch)
       \/ ~validateTableName(tbl)
       \/ \E b \in 1..Len(valuesBatch) :
                valuesBatch[b] = <<>> \/ ~validateValues(valuesBatch[b])
    THEN InsertRet(db, INVALID_ARGUMENT, FALSE)
    ELSE insertRowOpened(OpenTable(db, tbl, f), tbl, valuesBatch, vacBatch,
                         f, rf, ub)

\* The faults of an insertRow before it changes the table, and all of them
\* for a table with nd datasets.
EarlyInsertFaults ==
    {NoFault, <<"pathExists", 0>>, <<"H5Fopen", 0>>, <<"getRowCount", 0>>,
     <<"H5Dread", 0>>}

InsertFaults(nd) ==
    EarlyInsertFaults \cup {<<"setRowCount", 0>>}
        \cup {<<"extend", i>> : i \in 1..nd}
        \cup {<<"write", i>> : i \in 1..nd}

\* --------------------------------------------------------------- readColumn

\* readDatasetColumn for one requested column: the values of column col
\* (from 0) of the dataset over all dims[0] rows of the dataset.
readDatasetColumn(dset, col) ==
    IF Len(dset.rows) = 0
    THEN <<[type |-> dset.type, buffer |-> <<>>]>>
    ELSE IF isVariableLengthType(dset.type)
    THEN [r \in 1..Len(dset.rows) |->
            [type |-> dset.type, buffer |-> dset.rows[r][col + 1]]]
    ELSE <<[type |-> dset.type,
            buffer |-> [k \in 1..(Len(dset.rows) * dset.type.size) |->
                dset.rows[((k - 1) \div dset.type.size) + 1][col + 1]
                         [((k - 1) % dset.type.size) + 1]]]>>

\* The private readColumn on the entries of the column index read for the
\* requested columns.
readIndices(file, indices, f) ==
    IF getRowCount(file, f).code # OK THEN Failed(getRowCount(file, f).code)
    ELSE IF f = <<"H5Dread", 0>> THEN Failed(IO_ERROR)
    ELSE IF \E i \in 1..Len(indices) : ~ValidRef(file, indices[i].dataset_ref)
    THEN Failed(GENERAL_ERROR)
    ELSE IF \E i \in 1..Len(indices) :
                indices[i].dataset_column
                    >= file.dsets[indices[i].dataset_ref].cols
    THEN Failed(INVALID_ARGUMENT)
    ELSE IF \E i \in 1..Len(indices) :
                ~file.dsets[indices[i].dataset_ref].hasType
    THEN Failed(GENERAL_ERROR)
    ELSE IF f = <<"H5Aread", 0>> THEN Failed(IO_ERROR)
    ELSE [code |-> OK,
          out |-> [i \in 1..Len(indices) |->
                      readDatasetColumn(file.dsets[indices[i].dataset_ref],
                                        indices[i].dataset_column)]]

\* The private readColumn: colNrBatch holds valid, distinct column numbers
\* (from 0).
readColumnNrs(file, colNrBatch, f) ==
    readIndices(file,
        [i \in 1..Len(colNrBatch) |-> file.colIndex[colNrBatch[i] + 1]], f)

\* A faulty variant: the column numbers are checked against the column
\* count alone.
readColumnOfInRange(file, colIdBatch, f) ==
    IF getColumnCount(file, f).code # OK
    THEN Failed(getColumnCount(file, f).code)
    ELSE IF \E i \in 1..Len(colIdBatch) : colIdBatch[i] >= Len(file.colIndex)
    THEN Failed(INVALID_ARGUMENT)
    ELSE readColumnNrs(file, colIdBatch, f)

readColumnOf(file, colIdBatch, f) ==
    IF getColumnCount(file, f).code # OK
    THEN Failed(getColumnCount(file, f).code)
    ELSE IF \E i \in 1..Len(colIdBatch) :
                colIdBatch[i] >= Len(file.colIndex)
                \/ \E j \in 1..(i - 1) : colIdBatch[j] = colIdBatch[i]
    THEN Failed(INVALID_ARGUMENT)
    ELSE readColumnNrs(file, colIdBatch, f)

\* readColumn by column numbers.
readColumn(db, tbl, colIdBatch, f) ==
    IF colIdBatch = <<>> THEN Ret(db, INVALID_ARGUMENT, <<>>)
    ELSE OnOpened(OpenTable(db, tbl, f),
                  readColumnOf(FileOf(db, tbl), colIdBatch, f), <<>>)

\* The number (from 0) of the column of the given name.
ColumnNr(colNames, name) ==
    (CHOOSE j \in 1..Len(colNames) : StrCmp(colNames[j], name) = 0) - 1

\* cn: what tblColNames returned.
readNamed(file, colIdBatch, cn, f) ==
    IF cn.code # OK THEN Failed(cn.code)
    ELSE IF \E i \in 1..Len(colIdBatch) :
                \A j \in 1..Len(cn.out) : StrCmp(cn.out[j], colIdBatch[i]) # 0
    THEN Failed(INVALID_ARGUMENT)
    ELSE readColumnNrs(file,
            [i \in 1..Len(colIdBatch) |-> ColumnNr(cn.out, colIdBatch[i])], f)

readColumnByNameOf(file, colIdBatch, f) ==
    IF ~validateColumnNames(colIdBatch) \/ ~NamesUnique(colIdBatch)
    THEN Failed(INVALID_ARGUMENT)
    ELSE readNamed(file, colIdBatch, ColNamesOf(file, f), f)

\* readColumn by column names.
readColumnByName(db, tbl, colIdBatch, f) ==
    IF colIdBatch = <<>> THEN Ret(db, INVALID_ARGUMENT, <<>>)
    ELSE OnOpened(OpenTable(db, tbl, f),
                  readColumnByNameOf(FileOf(db, tbl), colIdBatch, f), <<>>)

\* ------------------------------------------------------- the inputs of calls

A1 == [type |-> TypeA, buffer |-> <<1>>]
A2 == [type |-> TypeA, buffer |-> <<2>>]
A12 == [type |-> TypeA, buffer |-> <<1, 2>>]
A34 == [type |-> TypeA, buffer |-> <<3, 4>>]
B1 == [type |-> TypeB, buffer |-> <<5, 6>>]
BB == [type |-> TypeB, buffer |-> <<5, 6, 7, 8>>]
V0 == [type |-> TypeV, buffer |-> <<>>]
V1 == [type |-> TypeV, buffer |-> <<9>>]
\* values validateValues rejects: no bytes, and half a scalar
\* Two rows of two columns of one byte: the four bytes in one value, and
\* one value for each column.
Block == [type |-> TypeA, buffer |-> <<16, 17, 32, 33>>]
Column0 == [type |-> TypeA, buffer |-> <<16, 32>>]
Column1 == [type |-> TypeA, buffer |-> <<17, 33>>]
A0 == [type |-> TypeA, buffer |-> <<>>]
Bhalf == [type |-> TypeB, buffer |-> <<5>>]

In(valuesBatch, valueAsColumnBatch) ==
    [valuesBatch |-> valuesBatch, valueAsColumnBatch |-> valueAsColumnBatch]

\* The arguments of insertRow: rows and columns for each schema, one and two
\* batches, and arguments the call rejects.
InsertInputs ==
    { In(<<<<A1, V1>>>>, <<FALSE>>), In(<<<<V0, A2>>>>, <<TRUE>>),
      In(<<<<A1, V1>>, <<A2, V0>>>>, <<FALSE, FALSE>>),
      In(<<<<A12, B1>>>>, <<FALSE>>), In(<<<<B1, A34>>>>, <<FALSE>>),
      In(<<<<A12, BB, A34>>>>, <<TRUE>>),
      In(<<<<A12, V1>>>>, <<FALSE>>), In(<<<<A12, V1>>>>, <<TRUE>>),
      In(<<<<A1>>>>, <<FALSE>>), In(<<<<A12, B1, A1>>>>, <<TRUE>>),
      In(<<<<A0>>>>, <<FALSE>>), In(<<<<Bhalf>>>>, <<FALSE>>),
      In(<<<<>>>>, <<FALSE>>), In(<<>>, <<>>),
      In(<<<<A1>>>>, <<TRUE, TRUE>>),
      In(<<<<Block>>>>, <<TRUE>>), In(<<<<Column0, Column1>>>>, <<TRUE>>) }

\* The column numbers and names readColumn is called with.
ColNrBatches == {<<0>>, <<1>>, <<2>>, <<3>>, <<1, 0>>, <<0, 0>>, <<>>}
ColNameBatches ==
    {<<NameA>>, <<NameB>>, <<NameC>>, <<NameB, NameA>>, <<NameA, NameA>>,
     <<<<>>>>, <<>>}

\* ------------------------------------------------- one connection: the state

\* db: the database directory and the connection's handle cache.
\* last: the call that returned last (see Returned).
\* The others record the history the properties refer to, per table:
\* schema: the arguments of the tblCreate that made the table;
\* rowSum: the rows given to the insertRow calls that returned OK since;
\* rowsLog: those rows, while every such call gave exactly one row;
\* logOk: every such call gave exactly one row;
\* rbFailed: a failed insertRow left a dataset it could not restore, and no
\*           insertRow has returned OK since.
VARIABLES db, last, schema, rowSum, rowsLog, logOk, rbFailed

\* The state of the transaction driver (SpecTx), per party:
\* pdb: the party's database; txOp: the operation of the transaction;
\* txPre: the databases when the transaction was proposed; order: the order
\* in which the consensus service hands the parties' results to the hooks;
\* pc: where the party is in the transaction; localResult, globalResult: the
\* fields of its TransactionData; rollbackCalls, execCalls: the calls of
\* TdbHdf5Transaction::rollback and TdbHdf5Transaction::execute in the
\* party's current call of executeTransaction; env: what the party's
\* executeTransaction found (the consensus service and the global id, or
\* which of them was missing); retval: what executeTransaction returned;
\* txCount: the transactions proposed.
VARIABLES pdb, txOp, txPre, order, pc, localResult, globalResult,
          rollbackCalls, txCount, execCalls, env, retval

\* The state of the connection manager (SpecMgr):
\* dirs: the directories of the file system; objs: the TdbHdf5Connection
\* objects constructed so far, each with its key (m_path), its address and
\* whether it is constructed and not yet destroyed; m_valueMap, m_deleterMap:
\* the maps of the KeyValueCache; held: the shared_ptr each thread holds to
\* each object; tpc: where the thread is (running, or in DeleteActor before
\* removePtr or before delete); dying: the object the thread's DeleteActor
\* was called with; opened: the last call of openConnection and its result.
VARIABLES dirs, objs, m_valueMap, m_deleterMap, held, tpc, dying, opened

mvars == <<dirs, objs, m_valueMap, m_deleterMap, held, tpc, dying, opened>>

\* The state of a process at the system calls of the module (SpecSys):
\* conn: the database of the connection of the process's data source;
\* errors: the code kept in the process's error store under the name of the
\* data source; outRef: what the call wrote to the out-reference;
\* moduleStatus: the status the call returned to the host; returnValue:
\* what it wrote to the return value; syscall: the call that returned last
\* (see Called).
VARIABLES conn, errors, outRef, moduleStatus, returnValue, syscall

svars == <<conn, errors, outRef, moduleStatus, returnValue, syscall>>

cvars == <<db, last, schema, rowSum, rowsLog, logOk, rbFailed>>

txvars == <<pdb, txOp, txPre, order, pc, localResult, globalResult,
            rollbackCalls, txCount, execCalls, env, retval>>

vars == <<cvars, txvars, mvars, svars>>

NoSchema == [names |-> <<>>, types |-> <<>>]

\* The record of a call of tblCreate, tblDelete or insertRow.
\* step: what the call had done when it failed: "created" for a tblCreate
\*       that had created the file, the failing step ("extend", "write",
\*       "setRowCount") for an insertRow that had reached the datasets,
\*       "none" otherwise;
\* rollbackFailed: the call's own cleanup failed.
Returned(op, tbl, code, step, rollbackFailed) ==
    [op |-> op, tbl |-> tbl, code |-> code, step |-> step,
     rollbackFailed |-> rollbackFailed]

\* The record of the other calls: which call it was and what it returned are
\* not kept, the result is a function of db.
ReturnedRead(tbl) ==
    [op |-> "read", tbl |-> tbl, code |-> "", step |-> "none",
     rollbackFailed |-> FALSE]

\* The number of parties (miners) of a transaction, and of transactions.
NumParties == 3
MaxTx == 1

Parties == 1..NumParties

\* The threads that use the manager, the addresses the allocator has for
\* TdbHdf5Connection objects, the objects constructed in a run, and the
\* shared_ptr one thread holds to one object.
NumThreads == 2
NumAddrs == 3
MaxConns == 3
MaxHeld == 2

Threads == 1..NumThreads
Addrs == 1..NumAddrs

\* No object, no address.
NoConn == 0

\* The values of DatabasePath in the configurations: a directory, the same
\* directory by another path, a directory that does not exist yet, and a
\* file that is not a directory.
ConfigPaths == {"db", "db/.", "new", "file"}

\* fs::canonical: the path with no dots.
canonical(path) == IF path = "db/." THEN "db" ELSE path

\* The keys of the cache.
Keys == {canonical(path) : path \in ConfigPaths}

\* No entry of m_valueMap for a key.
NoEntry == [first |-> NoConn, second |-> NoConn]

\* A new manager: an empty cache, no connection.
ManagerInit ==
    /\ dirs = {"db"}
    /\ objs = <<>>
    /\ m_valueMap = [k \in Keys |-> NoEntry]
    /\ m_deleterMap = [a \in Addrs |-> ""]
    /\ held = [t \in Threads |-> [c \in 1..MaxConns |-> 0]]
    /\ tpc = [t \in Threads |-> "run"]
    /\ dying = [t \in Threads |-> NoConn]
    /\ opened = [thread |-> 0, path |-> "", conn |-> NoConn]

\* The record of a system call: its name, the size of the out-reference
\* it was given (NoRef: none), why it was refused before its transaction
\* ("refs": the check of the out-reference, "ncols": no columns, "none": it
\* was not), the code executeTransaction returned ("none": it was not
\* called), the service of the host that failed, and whether the code was
\* written to an out-reference of fewer than 8 bytes.
Called(name, refSize, refused, ecode, hostFailure, overrun) ==
    [name |-> name, refSize |-> refSize, refused |-> refused,
     ecode |-> ecode, hostFailure |-> hostFailure, overrun |-> overrun]

\* No out-reference; nothing written; no code in the error store.
NoRef == 0
Unset == "unset"
NoError == "none"

\* A new process: no call yet, nothing in its error store.
SyscallInit ==
    /\ conn = EmptyDb
    /\ errors = NoError
    /\ outRef = Unset
    /\ moduleStatus = Unset
    /\ returnValue = Unset
    /\ syscall = Called("none", NoRef, "none", "none", "none", FALSE)

ConnectionInit ==
    /\ db = EmptyDb
    /\ last = ReturnedRead(<<>>)
    /\ schema = [t \in TableNames |-> NoSchema]
    /\ rowSum = [t \in TableNames |-> 0]
    /\ rowsLog = [t \in TableNames |-> <<>>]
    /\ logOk = [t \in TableNames |-> TRUE]
    /\ rbFailed = [t \in TableNames |-> FALSE]

\* No transaction: TransactionData is constructed with UNKNOWN_ERROR in both
\* results.
NoTransaction ==
    /\ txOp = [op |-> "none"]
    /\ txPre = pdb
    /\ order = [i \in Parties |-> i]
    /\ pc = [p \in Parties |-> "idle"]
    /\ localResult = [p \in Parties |-> UNKNOWN_ERROR]
    /\ globalResult = [p \in Parties |-> UNKNOWN_ERROR]
    /\ rollbackCalls = [p \in Parties |-> 0]
    /\ txCount = 0
    /\ execCalls = [p \in Parties |-> 0]
    /\ env = [p \in Parties |-> "consensus"]
    /\ retval = [p \in Parties |-> UNKNOWN_ERROR]

Init ==
    /\ ConnectionInit
    /\ pdb = [p \in Parties |-> EmptyDb]
    /\ NoTransaction
    /\ ManagerInit
    /\ SyscallInit

\* The history of a table that has just been created or is gone.
ResetHistory(tbl, sch) ==
    /\ schema' = [schema EXCEPT ![tbl] = sch]
    /\ rowSum' = [rowSum EXCEPT ![tbl] = 0]
    /\ rowsLog' = [rowsLog EXCEPT ![tbl] = <<>>]
    /\ logOk' = [logOk EXCEPT ![tbl] = TRUE]
    /\ rbFailed' = [rbFailed EXCEPT ![tbl] = FALSE]

History == <<schema, rowSum, rowsLog, logOk, rbFailed>>

\* A failure is an input of a call only where the call meets it.
TblCreate ==
    \E tbl \in TableNames, sch \in Schemas :
    \E r0 \in {tblCreate(db, tbl, sch.names, sch.types, NoFault, FALSE)} :
    \E f \in IF r0.code = OK THEN CreateFaults(sch.types)
             ELSE IF r0.code = TABLE_ALREADY_EXISTS
             THEN {NoFault, <<"pathExists", 0>>}
             ELSE {NoFault} :
    \E removeFails \in IF f[1] \in CreateStepNames THEN BOOLEAN ELSE {FALSE} :
    \E r \in {tblCreate(db, tbl, sch.names, sch.types, f, removeFails)} :
        /\ f # NoFault => r # r0
        /\ db' = r.db
        /\ last' = Returned("tblCreate", tbl, r.code,
                        IF r.code # OK /\ f[1] \in CreateStepNames
                        THEN "created" ELSE "none",
                        removeFails)
        /\ IF r.code = OK THEN ResetHistory(tbl, sch)
           ELSE UNCHANGED History
        /\ UNCHANGED <<txvars, mvars, svars>>

TblDelete ==
    \E tbl \in TableNames, f \in {NoFault, <<"remove", 0>>} :
    \E r \in {tblDelete(db, tbl, f)} :
        /\ db' = r.db
        /\ last' = Returned("tblDelete", tbl, r.code, "none", FALSE)
        /\ IF r.code = OK THEN ResetHistory(tbl, NoSchema)
           ELSE UNCHANGED History
        /\ UNCHANGED <<txvars, mvars, svars>>

TblExists ==
    \E tbl \in TableNames,
       f \in {NoFault, <<"pathExists", 0>>, <<"H5Fis_hdf5", 0>>} :
        /\ tblExists(db, tbl, f, FALSE).code \in {OK, GENERAL_ERROR}
        /\ last' = ReturnedRead(tbl)
        /\ UNCHANGED <<db, History, txvars, mvars, svars>>

\* The introspection calls and readColumn change the handle cache alone.
TblColCount ==
    \E tbl \in TableNames, f \in OpenFaults \cup {<<"getColumnCount", 0>>} :
        /\ db' = tblColCount(db, tbl, f).db
        /\ last' = ReturnedRead(tbl)
        /\ UNCHANGED <<History, txvars, mvars, svars>>

TblColNames ==
    \E tbl \in TableNames,
       f \in OpenFaults \cup {<<"getColumnCount", 0>>, <<"H5Dread", 0>>} :
        /\ db' = tblColNames(db, tbl, f).db
        /\ last' = ReturnedRead(tbl)
        /\ UNCHANGED <<History, txvars, mvars, svars>>

TblColTypes ==
    \E tbl \in TableNames, f \in ReadFaults \ {<<"getRowCount", 0>>} :
        /\ db' = tblColTypes(db, tbl, f).db
        /\ last' = ReturnedRead(tbl)
        /\ UNCHANGED <<History, txvars, mvars, svars>>

TblRowCount ==
    \E tbl \in TableNames, f \in OpenFaults \cup {<<"getRowCount", 0>>} :
        /\ db' = tblRowCount(db, tbl, f).db
        /\ last' = ReturnedRead(tbl)
        /\ UNCHANGED <<History, txvars, mvars, svars>>

\* The failures are those of the calls that read the first column.
ReadColumn ==
    \E tbl \in TableNames, cols \in ColNrBatches :
    \E f \in IF cols = <<0>> THEN ReadFaults ELSE {NoFault} :
        /\ db' = readColumn(db, tbl, cols, f).db
        /\ last' = ReturnedRead(tbl)
        /\ UNCHANGED <<History, txvars, mvars, svars>>

ReadColumnByName ==
    \E tbl \in TableNames, cols \in ColNameBatches :
    \E f \in IF cols = <<NameA>> THEN ReadFaults ELSE {NoFault} :
        /\ db' = readColumnByName(db, tbl, cols, f).db
        /\ last' = ReturnedRead(tbl)
        /\ UNCHANGED <<History, txvars, mvars, svars>>

\* The cells a row gives to the columns of a table of the given types, as the
\* interface defines it: the scalars of the values of one type, in the order
\* of the values, go to the columns of that type in the order of the columns.
ScalarsOf(value) ==
    IF isVariableLengthType(value.type) THEN <<value.buffer>>
    ELSE [k \in 1..(Len(value.buffer) \div value.type.size) |->
            SubSeq(value.buffer, (k - 1) * value.type.size + 1,
                   k * value.type.size)]

RECURSIVE ScalarsOfType(_, _)
ScalarsOfType(values, type) ==
    IF values = <<>> THEN <<>>
    ELSE (IF Head(values).type = type THEN ScalarsOf(Head(values)) ELSE <<>>)
         \o ScalarsOfType(Tail(values), type)

RowOf(types, values) ==
    [i \in 1..Len(types) |->
        ScalarsOfType(values, types[i])
            [Cardinality({j \in 1..i : types[j] = types[i]})]]

\* The failures are those of the calls that would return OK without them;
\* such a call is made only if the table has no more than MaxRows rows after
\* it.
\* A call that aborts ends the process: the next calls are those of a new
\* connection on the same directory.
InsertRow ==
    \E tbl \in TableNames, in \in InsertInputs :
    \E r0 \in {insertRow(db, tbl, in.valuesBatch, in.valueAsColumnBatch,
                         NoFault, 0, "mismatch")} :
    /\ r0.code = OK => FileOf(r0.db, tbl).row_count <= MaxRows
    /\ \E f \in IF r0.code = OK
                THEN InsertFaults(Len(FileOf(r0.db, tbl).dsets))
                ELSE {NoFault} :
       \E rf \in IF f[1] \in {"extend", "write", "setRowCount"}
                 THEN 0..Len(FileOf(r0.db, tbl).dsets) ELSE {0} :
       \E ub \in IF r0.code = INVALID_ARGUMENT
                 THEN {"abort", "mismatch"} ELSE {"mismatch"} :
       \E r \in {insertRow(db, tbl, in.valuesBatch, in.valueAsColumnBatch,
                           f, rf, ub)} :
        LET n == InsertedRowCount(in.valuesBatch, in.valueAsColumnBatch)
        IN  /\ f # NoFault => r # r0
            /\ rf # 0 => r.rollbackFailed
            /\ ub = "abort" => r.code = ABORTED
            /\ db' = r.db
            /\ last' = Returned("insertRow", tbl, r.code,
                            IF f[1] \in {"extend", "write", "setRowCount"}
                            THEN f[1] ELSE "none",
                            r.rollbackFailed)
            /\ UNCHANGED <<schema, txvars, mvars, svars>>
            /\ IF r.code = OK
               THEN /\ rowSum' = [rowSum EXCEPT ![tbl] = @ + n]
                    /\ rbFailed' = [rbFailed EXCEPT ![tbl] = FALSE]
                    /\ IF logOk[tbl] /\ n = 1 /\ Len(in.valuesBatch) = 1
                       THEN /\ rowsLog' = [rowsLog EXCEPT ![tbl] = Append(@,
                                 RowOf(schema[tbl].types, in.valuesBatch[1]))]
                            /\ UNCHANGED logOk
                       ELSE /\ rowsLog' = [rowsLog EXCEPT ![tbl] = <<>>]
                            /\ logOk' = [logOk EXCEPT ![tbl] = FALSE]
               ELSE /\ rbFailed' = [rbFailed EXCEPT ![tbl] =
                                       @ \/ r.rollbackFailed]
                    /\ UNCHANGED <<rowSum, rowsLog, logOk>>

\* Another program puts a file that is not an HDF5 file where the file of a
\* table would be.
PutFile ==
    \E tbl \in TableNames :
        /\ ~pathExists(db, nameToPath(tbl))
        /\ db' = [db EXCEPT !.dir[nameToPath(tbl)] = NotHdf5File]
        /\ last' = ReturnedRead(<<>>)
        /\ UNCHANGED <<History, txvars, mvars, svars>>

\* The loop of ~TdbHdf5Connection over the handles of the map, then clear().
RECURSIVE Destroyed(_, _)
Destroyed(d, tbls) ==
    IF tbls = {}
    THEN [d EXCEPT !.m_tableFiles = [t \in TableNames |-> NoHandle]]
    ELSE LET t == CHOOSE x \in tbls : TRUE
         IN  Destroyed(IF d.m_tableFiles[t] = NoHandle THEN d
                       ELSE H5Fclose(d, d.m_tableFiles[t]),
                       tbls \ {t})

\* ~TdbHdf5Connection closes every handle; a new connection starts with an
\* empty cache on the same directory.
Reconnect ==
    /\ \E t \in TableNames : db.m_tableFiles[t] # NoHandle
    /\ db' = Destroyed(db, TableNames)
    /\ last' = ReturnedRead(<<>>)
    /\ UNCHANGED <<History, txvars, mvars, svars>>

Next ==
    \/ TblCreate
    \/ TblDelete
    \/ TblExists
    \/ TblColCount
    \/ TblColNames
    \/ TblColTypes
    \/ TblRowCount
    \/ InsertRow
    \/ ReadColumn
    \/ ReadColumnByName
    \/ Reconnect
    \/ PutFile

Spec == Init /\ [][Next]_vars

\* -------------------------------------------------- the transaction driver

\* The operations the transactions of the model execute, each on table T1.
TxOps ==
    { [op |-> "tblCreate", names |-> <<NameA, NameB>>,
       types |-> <<TypeA, TypeV>>],
      [op |-> "tblDelete"],
      [op |-> "insertRow", valuesBatch |-> <<<<A1, V1>>>>,
       valueAsColumnBatch |-> <<FALSE>>, ub |-> "mismatch"] }

\* The failures a party's execution may meet.
TxFaults(o) ==
    IF o.op = "tblCreate" THEN {NoFault, <<"H5Fcreate", 0>>, <<"meta", 0>>}
    ELSE IF o.op = "tblDelete" THEN {NoFault, <<"remove", 0>>}
    ELSE IF o.op = "insertRow" THEN {NoFault, <<"setRowCount", 0>>}
    ELSE {NoFault}

\* TdbHdf5Transaction::execute: the bound call on the party's connection.
\* o.ub: what an insertRow does where its behaviour is undefined.
execute(d, o, f) ==
    IF o.op = "tblCreate" THEN tblCreate(d, T1, o.names, o.types, f, FALSE)
    ELSE IF o.op = "tblDelete" THEN tblDelete(d, T1, f)
    ELSE IF o.op = "tblExists"
    THEN Ret(d, tblExists(d, T1, f, FALSE).code,
             tblExists(d, T1, f, FALSE).status)
    ELSE IF o.op = "tblColCount" THEN tblColCount(d, T1, f)
    ELSE IF o.op = "tblColNames" THEN tblColNames(d, T1, f)
    ELSE IF o.op = "tblColTypes" THEN tblColTypes(d, T1, f)
    ELSE IF o.op = "tblRowCount" THEN tblRowCount(d, T1, f)
    ELSE IF o.op = "readColumn" THEN readColumn(d, T1, o.colIdBatch, f)
    ELSE IF o.op = "readColumnByName"
    THEN readColumnByName(d, T1, o.colIdBatch, f)
    ELSE insertRow(d, T1, o.valuesBatch, o.valueAsColumnBatch, f, 0, o.ub)

\* TdbHdf5Transaction::rollback: the body is empty.
rollback(d) == d

\* A faulty variant: the first code that is not OK is the global result,
\* without the comparison with the later ones.
RECURSIVE CommitLoopFirst(_, _, _)
CommitLoopFirst(results, i, err) ==
    IF i > Len(results) THEN err
    ELSE IF results[i] = OK \/ err # OK
    THEN CommitLoopFirst(results, i + 1, err)
    ELSE CommitLoopFirst(results, i + 1, results[i])

\* The loop of the commit hook over results[i .. count - 1].
RECURSIVE CommitLoop(_, _, _)
CommitLoop(results, i, err) ==
    IF i > Len(results) THEN err
    ELSE IF results[i] = OK THEN CommitLoop(results, i + 1, err)
    ELSE IF err = OK THEN CommitLoop(results, i + 1, results[i])
    ELSE IF err # results[i] THEN CONSENSUS_ERROR
    ELSE CommitLoop(results, i + 1, err)

\* The global result the commit hook computes from the local results.
GlobalResult(results) == CommitLoop(results, 1, OK)

\* The orders of the parties.
Orders ==
    {o \in [Parties -> Parties] : \A i, j \in Parties : i # j => o[i] # o[j]}

\* The database of a party that has the table.
TableDb ==
    tblCreate(EmptyDb, T1, <<NameA, NameB>>, <<TypeA, TypeV>>, NoFault,
              FALSE).db

TxInit ==
    /\ ConnectionInit
    /\ pdb \in [Parties -> {EmptyDb, TableDb}]
    /\ NoTransaction
    /\ ManagerInit
    /\ SyscallInit

\* No call of executeTransaction is under way.
Quiescent == \A p \in Parties : pc[p] \in {"idle", "returned", "returnedLocal"}

\* blocking_propose: every party proposes the same operation.
Propose ==
    /\ txCount < MaxTx
    /\ Quiescent
    /\ \E o \in TxOps, ord \in Orders :
        /\ txOp' = o
        /\ order' = ord
    /\ txPre' = pdb
    /\ pc' = [p \in Parties |-> "proposed"]
    /\ localResult' = [p \in Parties |-> UNKNOWN_ERROR]
    /\ globalResult' = [p \in Parties |-> UNKNOWN_ERROR]
    /\ txCount' = txCount + 1
    /\ rollbackCalls' = [p \in Parties |-> 0]
    /\ execCalls' = [p \in Parties |-> 0]
    /\ env' = [p \in Parties |-> "consensus"]
    /\ retval' = [p \in Parties |-> UNKNOWN_ERROR]
    /\ UNCHANGED <<pdb, cvars, mvars, svars>>

\* The execute hook of party p.
Execute(p) ==
    /\ pc[p] = "proposed"
    /\ \E f \in TxFaults(txOp) :
       \E r \in {execute(pdb[p], txOp, f)} :
        /\ pdb' = [pdb EXCEPT ![p] = r.db]
        /\ localResult' = [localResult EXCEPT ![p] = r.code]
    /\ pc' = [pc EXCEPT ![p] = "executed"]
    /\ execCalls' = [execCalls EXCEPT ![p] = @ + 1]
    /\ UNCHANGED <<txOp, txPre, order, globalResult, rollbackCalls, txCount,
                   env, retval, cvars, mvars, svars>>

\* A faulty variant: rollback is called whenever the global result is not OK.
CommitRollbackAlways(p) ==
    /\ pc[p] = "executed"
    /\ \A q \in Parties : pc[q] \in {"executed", "committed", "returned"}
    /\ \E g \in {GlobalResult([i \in Parties |-> localResult[order[i]]])} :
        /\ globalResult' = [globalResult EXCEPT ![p] = g]
        /\ IF g # OK
           THEN /\ pdb' = [pdb EXCEPT ![p] = rollback(pdb[p])]
                /\ rollbackCalls' = [rollbackCalls EXCEPT ![p] = @ + 1]
           ELSE UNCHANGED <<pdb, rollbackCalls>>
    /\ pc' = [pc EXCEPT ![p] = "committed"]
    /\ UNCHANGED <<txOp, txPre, order, localResult, txCount, execCalls, env,
                   retval, cvars, mvars, svars>>

\* The commit hook of party p, given every party's local result.
Commit(p) ==
    /\ pc[p] = "executed"
    /\ \A q \in Parties : pc[q] \in {"executed", "committed", "returned"}
    /\ \E g \in {GlobalResult([i \in Parties |-> localResult[order[i]]])} :
        /\ globalResult' = [globalResult EXCEPT ![p] = g]
        /\ IF localResult[p] = OK /\ g # OK
           THEN /\ pdb' = [pdb EXCEPT ![p] = rollback(pdb[p])]
                /\ rollbackCalls' = [rollbackCalls EXCEPT ![p] = @ + 1]
           ELSE UNCHANGED <<pdb, rollbackCalls>>
    /\ pc' = [pc EXCEPT ![p] = "committed"]
    /\ UNCHANGED <<txOp, txPre, order, localResult, txCount, execCalls, env,
                   retval, cvars, mvars, svars>>

\* blocking_propose returns SHAREMIND_CONSENSUS_FACILITY_OK and
\* executeTransaction returns transaction.globalResult.
Return(p) ==
    /\ pc[p] = "committed"
    /\ retval' = [retval EXCEPT ![p] = globalResult[p]]
    /\ pc' = [pc EXCEPT ![p] = "returned"]
    /\ UNCHANGED <<pdb, txOp, txPre, order, localResult, globalResult,
                   rollbackCalls, txCount, execCalls, env, cvars, mvars, svars>>

\* What executeTransaction may find in place of a consensus service with a
\* global id: m_consensusService is null, processFacility() yields null, or
\* globalId() yields null.
LocalEnvs == {"noConsensusService", "noProcessFacility", "noGlobalId"}

\* A faulty variant: without a global id the facility is reported missing.
executeTransactionStrict(d, o, f, e) ==
    IF e \in {"noProcessFacility", "noGlobalId"}
    THEN [db |-> d, code |-> MISSING_FACILITY, executions |-> 0]
    ELSE [db |-> execute(d, o, f).db, code |-> execute(d, o, f).code,
          executions |-> 1]

\* executeTransaction where it does not propose to the consensus service:
\* the database afterwards, the code returned and the calls of
\* TdbHdf5Transaction::execute.
executeTransaction(d, o, f, e) ==
    IF e = "noProcessFacility"
    THEN [db |-> d, code |-> MISSING_FACILITY, executions |-> 0]
    ELSE [db |-> execute(d, o, f).db, code |-> execute(d, o, f).code,
          executions |-> 1]

\* A call of executeTransaction by party p that does not reach the
\* consensus service.
ExecuteLocal(p) ==
    /\ txCount < MaxTx
    /\ Quiescent
    /\ \E o \in TxOps, e \in LocalEnvs :
       \E f \in TxFaults(o) :
       \E r \in {executeTransaction(pdb[p], o, f, e)} :
        /\ txOp' = o
        /\ env' = [q \in Parties |-> IF q = p THEN e ELSE "consensus"]
        /\ pdb' = [pdb EXCEPT ![p] = r.db]
        /\ retval' = [q \in Parties |->
                        IF q = p THEN r.code ELSE UNKNOWN_ERROR]
        /\ execCalls' = [q \in Parties |->
                            IF q = p THEN r.executions ELSE 0]
    /\ txPre' = pdb
    /\ pc' = [q \in Parties |-> IF q = p THEN "returnedLocal" ELSE "idle"]
    /\ localResult' = [q \in Parties |-> UNKNOWN_ERROR]
    /\ globalResult' = [q \in Parties |-> UNKNOWN_ERROR]
    /\ rollbackCalls' = [q \in Parties |-> 0]
    /\ txCount' = txCount + 1
    /\ UNCHANGED <<order, cvars, mvars, svars>>

TxNext ==
    \/ Propose
    \/ \E p \in Parties : Execute(p)
    \/ \E p \in Parties : Commit(p)
    \/ \E p \in Parties : Return(p)
    \/ \E p \in Parties : ExecuteLocal(p)

SpecTx == TxInit /\ [][TxNext]_vars

\* ------------------------------------------------ the connection manager

RECURSIVE SumOver(_, _)
SumOver(f, S) ==
    IF S = {} THEN 0
    ELSE LET x == CHOOSE y \in S : TRUE IN f[x] + SumOver(f, S \ {x})

\* The use count of the shared_ptr control block of object c.
use_count(h, c) == SumOver([t \in Threads |-> h[t][c]], Threads)

\* The objects that are constructed and not yet destroyed.
Alive(o) == {c \in 1..Len(o) : o[c].alive}

\* The addresses operator new may return.
FreeAddrs(o) == Addrs \ {o[c].addr : c \in Alive(o)}

\* The cache has a value for the key whose weak_ptr can be locked.
CacheHit(vm, h, key) ==
    vm[key] # NoEntry /\ use_count(h, vm[key].second) > 0

\* A faulty variant of the cache lookup: the entry is never used.
getAlways(vm, dm, o, h, key, addr) ==
    [m_valueMap |-> [vm EXCEPT ![key] =
                        [first |-> addr, second |-> Len(o) + 1]],
     m_deleterMap |-> [dm EXCEPT ![addr] = key],
     objs |-> Append(o, [key |-> key, addr |-> addr, alive |-> TRUE]),
     ptr |-> Len(o) + 1]

\* A faulty variant: the deleter-map entry of an expired value is left in
\* place when get replaces the value.
getKeepsDeleter(vm, dm, o, h, key, addr) ==
    IF CacheHit(vm, h, key)
    THEN [m_valueMap |-> vm, m_deleterMap |-> dm, objs |-> o,
          ptr |-> vm[key].second]
    ELSE [m_valueMap |-> [vm EXCEPT ![key] =
                            [first |-> addr, second |-> Len(o) + 1]],
          m_deleterMap |-> [dm EXCEPT ![addr] = key],
          objs |-> Append(o, [key |-> key, addr |-> addr, alive |-> TRUE]),
          ptr |-> Len(o) + 1]

\* KeyValueCache::Inner::get under m_mutex, with the address operator new
\* returns if a value is constructed: the maps and the objects afterwards,
\* and the object returned.
get(vm, dm, o, h, key, addr) ==
    IF CacheHit(vm, h, key)
    THEN [m_valueMap |-> vm, m_deleterMap |-> dm, objs |-> o,
          ptr |-> vm[key].second]
    ELSE [m_valueMap |-> [vm EXCEPT ![key] =
                            [first |-> addr, second |-> Len(o) + 1]],
          m_deleterMap |->
              [a \in Addrs |->
                  IF a = addr THEN key
                  ELSE IF vm[key] # NoEntry /\ a = vm[key].first THEN ""
                  ELSE dm[a]],
          objs |-> Append(o, [key |-> key, addr |-> addr, alive |-> TRUE]),
          ptr |-> Len(o) + 1]

\* The result of openConnection in opened.
Opened(t, path, c) == [thread |-> t, path |-> path, conn |-> c]

\* TdbHdf5Manager::openConnection by thread t that returns no connection:
\* the path is not a directory, or it does not exist and cannot be created.
OpenConnectionFails(t) ==
    /\ tpc[t] = "run"
    /\ \E path \in ConfigPaths :
        /\ path = "file" \/ canonical(path) \notin dirs
        /\ opened' = Opened(t, path, NoConn)
    /\ UNCHANGED <<dirs, objs, m_valueMap, m_deleterMap, held, tpc, dying,
                   cvars, txvars, svars>>

\* TdbHdf5Manager::openConnection by thread t that reaches the cache.
OpenConnection(t) ==
    /\ tpc[t] = "run"
    /\ \E path \in ConfigPaths \ {"file"} :
       \E addr \in IF CacheHit(m_valueMap, held, canonical(path))
                    THEN {NoConn} ELSE FreeAddrs(objs) :
       \E r \in {get(m_valueMap, m_deleterMap, objs, held, canonical(path),
                     addr)} :
        /\ Len(r.objs) <= MaxConns
        /\ held[t][r.ptr] < MaxHeld
        /\ dirs' = dirs \cup {canonical(path)}
        /\ m_valueMap' = r.m_valueMap
        /\ m_deleterMap' = r.m_deleterMap
        /\ objs' = r.objs
        /\ held' = [held EXCEPT ![t][r.ptr] = @ + 1]
        /\ opened' = Opened(t, path, r.ptr)
    /\ UNCHANGED <<tpc, dying, cvars, txvars, svars>>

\* Thread t drops a shared_ptr to object c; if it was the last one, the
\* thread is in DeleteActor::operator() with the object.
Release(t) ==
    /\ tpc[t] = "run"
    /\ \E c \in 1..Len(objs) :
        /\ held[t][c] > 0
        /\ held' = [held EXCEPT ![t][c] = @ - 1]
        /\ IF use_count(held, c) = 1
           THEN /\ tpc' = [tpc EXCEPT ![t] = "removePtr"]
                /\ dying' = [dying EXCEPT ![t] = c]
           ELSE UNCHANGED <<tpc, dying>>
    /\ UNCHANGED <<dirs, objs, m_valueMap, m_deleterMap, opened, cvars,
                   txvars, svars>>

\* KeyValueCache::Inner::removePtr under m_mutex, called by DeleteActor.
removePtr(vm, dm, ptr) ==
    IF dm[ptr] = "" THEN [m_valueMap |-> vm, m_deleterMap |-> dm]
    ELSE [m_valueMap |-> [vm EXCEPT ![dm[ptr]] = NoEntry],
          m_deleterMap |-> [dm EXCEPT ![ptr] = ""]]

RemovePtr(t) ==
    /\ tpc[t] = "removePtr"
    /\ \E r \in {removePtr(m_valueMap, m_deleterMap, objs[dying[t]].addr)} :
        /\ m_valueMap' = r.m_valueMap
        /\ m_deleterMap' = r.m_deleterMap
    /\ tpc' = [tpc EXCEPT ![t] = "delete"]
    /\ UNCHANGED <<dirs, objs, held, dying, opened, cvars, txvars, svars>>

\* delete ptr in DeleteActor: the connection is destroyed.
Delete(t) ==
    /\ tpc[t] = "delete"
    /\ objs' = [objs EXCEPT ![dying[t]].alive = FALSE]
    /\ tpc' = [tpc EXCEPT ![t] = "run"]
    /\ dying' = [dying EXCEPT ![t] = NoConn]
    /\ UNCHANGED <<dirs, m_valueMap, m_deleterMap, held, opened, cvars,
                   txvars, svars>>

MgrNext ==
    \/ \E t \in Threads : OpenConnectionFails(t)
    \/ \E t \in Threads : OpenConnection(t)
    \/ \E t \in Threads : Release(t)
    \/ \E t \in Threads : RemovePtr(t)
    \/ \E t \in Threads : Delete(t)

SpecMgr == Init /\ [][MgrNext]_vars

\* ------------------------------------------------------ the system calls

\* The statuses a system call returns to the host.
API_OK == "SHAREMIND_MODULE_API_0x1_OK"
API_INVALID_CALL == "SHAREMIND_MODULE_API_0x1_INVALID_CALL"
API_GENERAL_ERROR == "SHAREMIND_MODULE_API_0x1_GENERAL_ERROR"

SIZEOF_INT64 == 8

\* The out-references a caller gives: none, one of 4 bytes, one of 8 bytes.
RefSizes == {NoRef, 4, SIZEOF_INT64}

\* An out-reference with what a write of 8 bytes to it does where the
\* reference has fewer.
RefInputs ==
    {<<refSize, "corrupt">> : refSize \in RefSizes}
        \cup {<<refSize, "abort">> : refSize \in RefSizes \ {NoRef, SIZEOF_INT64}}

\* The table-level system calls, and those of them that hand their result
\* over in a vector map.
TableSyscalls ==
    {"tdb_tbl_create", "tdb_tbl_delete", "tdb_tbl_exists",
     "tdb_tbl_col_count", "tdb_tbl_col_names", "tdb_tbl_col_types",
     "tdb_tbl_row_count", "tdb_insert_row", "tdb_read_col"}
VectorMapSyscalls == {"tdb_tbl_col_names", "tdb_tbl_col_types", "tdb_read_col"}

\* The check of the size of the out-reference at the head of each system
\* call; tdb_tbl_exists compares with == where the others compare with !=.
refsChecked(name, refSize) ==
    IF refSize = NoRef THEN TRUE
    ELSE IF name = "tdb_tbl_exists" THEN refSize # SIZEOF_INT64
    ELSE refSize = SIZEOF_INT64

\* The column names tdb_tbl_create makes: the decimal numbers from 0.
NumberedNames(ncols) == [i \in 1..ncols |-> Decimal(i - 1)]

\* The transaction tdb_tbl_create binds: ncols columns of one type.
CreateOp(type, ncols) ==
    [op |-> "tblCreate", names |-> NumberedNames(ncols),
     types |-> [i \in 1..ncols |-> type]]

\* The size tdb_insert_row gives the value: that of the buffer if it is the
\* size of the type, one byte less otherwise.
bufSize(typeSize, crefSize) ==
    IF crefSize = typeSize THEN crefSize ELSE crefSize - 1

\* The transaction tdb_insert_row binds: one batch of one value, on the
\* first bufSize bytes of the buffer.
InsertOp(type, bytes, valueAsColumn, ub) ==
    [op |-> "insertRow",
     valuesBatch |-> <<<<[type |-> type,
                          buffer |-> SubSeq(bytes, 1,
                                        bufSize(type.size, Len(bytes)))]>>>>,
     valueAsColumnBatch |-> <<valueAsColumn>>, ub |-> ub]

\* The result of a system call: the connection's database and the error
\* store after it, what it wrote, the status, and the record of the call.
SyscallResult(d, errs, ref, status, value, called) ==
    [conn |-> d, errors |-> errs, outRef |-> ref, moduleStatus |-> status,
     returnValue |-> value, syscall |-> called]

\* The end of a system call whose code is in the error store: the code is
\* written to the out-reference if there is one, and the result is handed
\* over if the code is OK.  out: the out-parameter of the bound call.
Recorded(name, refSize, d, ecode, out, hf, called) ==
    IF ecode # OK
    THEN SyscallResult(d, ecode, IF refSize # NoRef THEN ecode ELSE Unset,
            IF refSize # NoRef THEN API_OK ELSE API_GENERAL_ERROR,
            Unset, called)
    ELSE IF name \in {"tdb_tbl_create", "tdb_tbl_delete", "tdb_insert_row"}
    THEN SyscallResult(d, ecode, IF refSize # NoRef THEN ecode ELSE Unset,
            API_OK, Unset, called)
    ELSE IF name \in VectorMapSyscalls /\ hf = "newVectorMap"
    THEN SyscallResult(d, ecode, IF refSize # NoRef THEN ecode ELSE Unset,
            API_GENERAL_ERROR, Unset, called)
    ELSE SyscallResult(d, ecode, IF refSize # NoRef THEN ecode ELSE Unset,
            API_OK, out, called)

\* A system call after executeTransaction returned r.  A bound call that
\* aborted has ended the process, and its error store with it.
\* setErrorCode fails if it gets no error store (hf = "getDataStore").
\* A write of the 8 bytes of the code to an out-reference of fewer bytes has
\* no defined behaviour: it ends the process (ovr = "abort") or overwrites
\* what follows the reference ("corrupt").
Executed(name, refSize, errs, r, out, hf, ovr) ==
    IF r.code = ABORTED
    THEN SyscallResult(r.db, NoError, Unset, ABORTED, Unset,
            Called(name, refSize, "none", ABORTED, "none", FALSE))
    ELSE IF hf = "getDataStore"
    THEN SyscallResult(r.db, errs, Unset, API_GENERAL_ERROR, Unset,
            Called(name, refSize, "none", r.code, hf, FALSE))
    ELSE IF refSize \notin {NoRef, SIZEOF_INT64} /\ ovr = "abort"
    THEN SyscallResult(r.db, NoError, Unset, ABORTED, Unset,
            Called(name, refSize, "none", r.code, "none", TRUE))
    ELSE Recorded(name, refSize, r.db, r.code, out, hf,
            Called(name, refSize, "none", r.code,
                   IF name \in VectorMapSyscalls /\ r.code = OK
                      /\ hf = "newVectorMap" THEN hf ELSE "none",
                   refSize \notin {NoRef, SIZEOF_INT64}))

\* A table-level system call on the data source whose connection has the
\* database d and whose entry of the error store is errs, with the bound
\* call o; e: what executeTransaction finds in place of the consensus
\* service; hf: the service of the host that fails.
Syscall(d, errs, name, refSize, o, f, e, hf, ovr) ==
    IF ~refsChecked(name, refSize)
    THEN SyscallResult(d, errs, Unset, API_INVALID_CALL, Unset,
            Called(name, refSize, "refs", "none", "none", FALSE))
    ELSE IF o.op = "tblCreate" /\ o.names = <<>>
    THEN SyscallResult(d, errs, Unset, API_INVALID_CALL, Unset,
            Called(name, refSize, "ncols", "none", "none", FALSE))
    ELSE Executed(name, refSize, errs, executeTransaction(d, o, f, e),
                  IF o.op \in {"tblCreate", "tblDelete", "insertRow"}
                  THEN Unset ELSE execute(d, o, f).out,
                  hf, ovr)

\* The rows of a table of the process.
MaxSysRows == 1

\* The types of the columns and values of the system calls.
SysTypes == {TypeA, TypeV}

\* What executeTransaction finds: no consensus service, so that it executes
\* the transaction itself, or no process facility.
SysEnvs == {"noConsensusService", "noProcessFacility"}

\* The failures the bound call may meet.
SysFaults(o) ==
    IF o.op = "tblDelete" THEN {NoFault, <<"remove", 0>>} ELSE {NoFault}

\* The services of the host a system call may find failing: the error
\* store, and the vector map of a result.  (getConnection and the set of the
\* error store do not fail here.)
HostFailures(name) ==
    {"none", "getDataStore"}
        \cup (IF name \in VectorMapSyscalls THEN {"newVectorMap"} ELSE {})

\* The results of one system call of the process, over the out-references,
\* what executeTransaction finds, and the failures.  A failure is an input
\* of the call only where the call meets it; a call is made only if the
\* table has no more than MaxSysRows rows after it.
Calls(name, o) ==
    UNION {
        {r \in {Syscall(conn, errors, name, ref[1], o, f, e, hf, ref[2])} :
            /\ f # NoFault =>
                r # Syscall(conn, errors, name, ref[1], o, NoFault, e, hf,
                            ref[2])
            /\ hf # "none" =>
                r # Syscall(conn, errors, name, ref[1], o, f, e, "none",
                            ref[2])
            /\ ref[2] # "corrupt" =>
                r # Syscall(conn, errors, name, ref[1], o, f, e, hf,
                            "corrupt")
            /\ pathExists(r.conn, nameToPath(T1)) =>
                FileOf(r.conn, T1).row_count <= MaxSysRows} :
        ref \in RefInputs, e \in SysEnvs, f \in SysFaults(o),
        hf \in HostFailures(name) }

TdbTblCreate ==
    \E type \in SysTypes, ncols \in 0..1 :
    \E r \in Calls("tdb_tbl_create", CreateOp(type, ncols)) :
        /\ conn' = r.conn /\ errors' = r.errors /\ outRef' = r.outRef
        /\ moduleStatus' = r.moduleStatus /\ returnValue' = r.returnValue
        /\ syscall' = r.syscall
        /\ UNCHANGED <<cvars, txvars, mvars>>

TdbTblDelete ==
    \E r \in Calls("tdb_tbl_delete", [op |-> "tblDelete"]) :
        /\ conn' = r.conn /\ errors' = r.errors /\ outRef' = r.outRef
        /\ moduleStatus' = r.moduleStatus /\ returnValue' = r.returnValue
        /\ syscall' = r.syscall
        /\ UNCHANGED <<cvars, txvars, mvars>>

TdbTblExists ==
    \E r \in Calls("tdb_tbl_exists", [op |-> "tblExists"]) :
        /\ conn' = r.conn /\ errors' = r.errors /\ outRef' = r.outRef
        /\ moduleStatus' = r.moduleStatus /\ returnValue' = r.returnValue
        /\ syscall' = r.syscall
        /\ UNCHANGED <<cvars, txvars, mvars>>

TdbTblColCount ==
    \E r \in Calls("tdb_tbl_col_count", [op |-> "tblColCount"]) :
        /\ conn' = r.conn /\ errors' = r.errors /\ outRef' = r.outRef
        /\ moduleStatus' = r.moduleStatus /\ returnValue' = r.returnValue
        /\ syscall' = r.syscall
        /\ UNCHANGED <<cvars, txvars, mvars>>

TdbTblColNames ==
    \E r \in Calls("tdb_tbl_col_names", [op |-> "tblColNames"]) :
        /\ conn' = r.conn /\ errors' = r.errors /\ outRef' = r.outRef
        /\ moduleStatus' = r.moduleStatus /\ returnValue' = r.returnValue
        /\ syscall' = r.syscall
        /\ UNCHANGED <<cvars, txvars, mvars>>

TdbTblColTypes ==
    \E r \in Calls("tdb_tbl_col_types", [op |-> "tblColTypes"]) :
        /\ conn' = r.conn /\ errors' = r.errors /\ outRef' = r.outRef
        /\ moduleStatus' = r.moduleStatus /\ returnValue' = r.returnValue
        /\ syscall' = r.syscall
        /\ UNCHANGED <<cvars, txvars, mvars>>

TdbTblRowCount ==
    \E r \in Calls("tdb_tbl_row_count", [op |-> "tblRowCount"]) :
        /\ conn' = r.conn /\ errors' = r.errors /\ outRef' = r.outRef
        /\ moduleStatus' = r.moduleStatus /\ returnValue' = r.returnValue
        /\ syscall' = r.syscall
        /\ UNCHANGED <<cvars, txvars, mvars>>

\* The buffers: one byte, and two bytes with the byte the caller adds.
TdbInsertRow ==
    \E type \in SysTypes, bytes \in {<<1>>, <<3, 4, 0>>},
       valueAsColumn \in BOOLEAN :
    \E ub \in IF execute(conn, InsertOp(type, bytes, valueAsColumn, "abort"),
                         NoFault).code = ABORTED
              THEN {"abort", "mismatch"} ELSE {"mismatch"} :
    \E r \in Calls("tdb_insert_row",
                   InsertOp(type, bytes, valueAsColumn, ub)) :
        /\ conn' = r.conn /\ errors' = r.errors /\ outRef' = r.outRef
        /\ moduleStatus' = r.moduleStatus /\ returnValue' = r.returnValue
        /\ syscall' = r.syscall
        /\ UNCHANGED <<cvars, txvars, mvars>>

\* By the number of the column, or by its name.
TdbReadCol ==
    \E byName \in BOOLEAN, i \in 0..1 :
    \E r \in Calls("tdb_read_col",
                   IF byName
                   THEN [op |-> "readColumnByName",
                         colIdBatch |-> <<<<Decimal(0), NameA>>[i + 1]>>]
                   ELSE [op |-> "readColumn", colIdBatch |-> <<i>>]) :
        /\ conn' = r.conn /\ errors' = r.errors /\ outRef' = r.outRef
        /\ moduleStatus' = r.moduleStatus /\ returnValue' = r.returnValue
        /\ syscall' = r.syscall
        /\ UNCHANGED <<cvars, txvars, mvars>>

SysNext ==
    \/ TdbTblCreate
    \/ TdbTblDelete
    \/ TdbTblExists
    \/ TdbTblColCount
    \/ TdbTblColNames
    \/ TdbTblColTypes
    \/ TdbTblRowCount
    \/ TdbInsertRow
    \/ TdbReadCol

SpecSys == Init /\ [][SysNext]_vars

\* ------------------------------------------------------------ properties

\* A cached handle is open on the file at the table's path, if there is an
\* HDF5 file at the path.
HandleOnFile ==
    \A t \in TableNames :
        (/\ db.m_tableFiles[t] # NoHandle
         /\ pathExists(db, nameToPath(t))
         /\ FileOf(db, t).isHdf5) =>
            FileOf(db, t).id = db.m_tableFiles[t]

\* The first dimension of every per-type dataset of the table's file.
Extents(d, tbl) ==
    IF d.dir[nameToPath(tbl)] = NoFile THEN <<>>
    ELSE [i \in 1..Len(FileOf(d, tbl).dsets) |->
            Len(FileOf(d, tbl).dsets[i].rows)]

\* What tblRowCount returns: its code and the count.
RowCountResult(d, tbl) ==
    <<tblRowCount(d, tbl, NoFault).code, tblRowCount(d, tbl, NoFault).out>>

\* No dataset of the table has rows beyond row_count.
NoRowsBeyond(d, tbl) ==
    d.dir[nameToPath(tbl)] # NoFile =>
        \A i \in 1..Len(FileOf(d, tbl).dsets) :
            Len(FileOf(d, tbl).dsets[i].rows) <= FileOf(d, tbl).row_count

\* The step is an insertRow on tbl that does not return OK.
FailedInsertStep(tbl) ==
    last'.op = "insertRow" /\ last'.tbl = tbl /\ last'.code # OK

RowUniformity(tbl) ==
    \A i \in 1..Len(FileOf(db, tbl).dsets) :
        Len(FileOf(db, tbl).dsets[i].rows) = tblRowCount(db, tbl, NoFault).out

RECURSIVE Concat(_)
Concat(seqs) == IF seqs = <<>> THEN <<>> ELSE Head(seqs) \o Concat(Tail(seqs))

\* The values readColumn delivers for a column of the given type holding the
\* given cells: the cells of a fixed length type in one value, those of a
\* variable length type in one value each, and one empty value for no rows.
ExpectedColumn(type, cells) ==
    IF cells = <<>> THEN <<[type |-> type, buffer |-> <<>>]>>
    ELSE IF isVariableLengthType(type)
    THEN [r \in 1..Len(cells) |-> [type |-> type, buffer |-> cells[r]]]
    ELSE <<[type |-> type, buffer |-> Concat(cells)]>>

\* Column i (from 1) of the rows inserted into the table.
LoggedColumn(tbl, i) == [k \in 1..Len(rowsLog[tbl]) |-> rowsLog[tbl][k][i]]

\* C3: after any sequence of successful single-row insertRow calls that
\* respect the schema, readColumn(T, i) returns for every ordinal i the
\* values given for column i, in the order of insertion: the value inserted
\* at row count n is at row n, and later inserts do not change earlier rows.
C3_ReadColumnRoundTrip ==
    \A t \in TableNames :
        (schema[t] # NoSchema /\ logOk[t] /\ ~rbFailed[t]) =>
            \A i \in 1..Len(schema[t].types) :
                /\ readColumn(db, t, <<i - 1>>, NoFault).code = OK
                /\ readColumn(db, t, <<i - 1>>, NoFault).out =
                        <<ExpectedColumn(schema[t].types[i],
                                         LoggedColumn(t, i))>>

\* Two different rows were inserted, one call each, into the table with two
\* columns of one type.
C3_TwoDifferentRows ==
    /\ logOk[T1] /\ ~rbFailed[T1]
    /\ schema[T1].types = <<TypeA, TypeB, TypeA>>
    /\ Len(rowsLog[T1]) = 2
    /\ rowsLog[T1][1] # rowsLog[T1][2]

\* C4: after tblCreate and any sequence of insertRow calls, failed ones
\* interleaved, tblRowCount is the sum of the rows of the calls that
\* returned OK.
C4_RowCountIsSumOfInserted ==
    \A t \in TableNames :
        schema[t] # NoSchema =>
            RowCountResult(db, t) = <<OK, rowSum[t]>>

\* Two rows were inserted and the last insertRow was refused.
C4_RowsThenFailedInsert ==
    /\ rowSum[T1] = 2
    /\ last.op = "insertRow" /\ last.code = INVALID_ARGUMENT

\* tblCreate has just returned OK for the table.
Created(tbl) == last.op = "tblCreate" /\ last.tbl = tbl /\ last.code = OK

\* C5: after tblCreate(T, names, types) returned OK, tblExists(T) is true,
\* tblRowCount(T) is 0, tblColCount(T) is the number of names and
\* tblColNames(T) is names.
C5_IntrospectionAfterCreate ==
    \A t \in TableNames :
        Created(t) =>
            /\ tblExists(db, t, NoFault, FALSE) = [code |-> OK, status |-> TRUE]
            /\ RowCountResult(db, t) = <<OK, 0>>
            /\ tblColCount(db, t, NoFault).code = OK
            /\ tblColCount(db, t, NoFault).out = Len(schema[t].names)
            /\ tblColNames(db, t, NoFault).code = OK
            /\ tblColNames(db, t, NoFault).out = schema[t].names

\* tblCreate has just returned OK for a table of three columns.
C5_CreatedThreeColumns ==
    Created(T1) /\ schema[T1].names = <<NameA, NameB, NameC>>

\* C6: tblColTypes(T) equals the types given to tblCreate, column by column,
\* also when several columns share one type.
C6_ColTypesAreCreateTypes ==
    \A t \in TableNames :
        schema[t] # NoSchema =>
            /\ tblColTypes(db, t, NoFault).code = OK
            /\ tblColTypes(db, t, NoFault).out = schema[t].types

\* The table has two columns of one type and a row.
C6_SharedTypeWithRow ==
    /\ schema[T1].types = <<TypeA, TypeB, TypeA>>
    /\ rowSum[T1] >= 1

\* tblCreate has just failed for the table after it had created the file.
FailedAfterCreation(tbl) ==
    last.op = "tblCreate" /\ last.tbl = tbl /\ last.step = "created"

ValidSchemas == {sch \in Schemas : ~BadArgument(sch.names, sch.types, T1)}

\* C8: tblCreate(T, ...) with valid arguments on a table whose file exists
\* returns TableAlreadyExists and changes nothing: the file stays as it is
\* and the cached handle is neither closed nor replaced.
C8_CreateExistingChangesNothing ==
    \A t \in TableNames, sch \in ValidSchemas :
        pathExists(db, nameToPath(t)) =>
            tblCreate(db, t, sch.names, sch.types, NoFault, FALSE)
                = [db |-> db, code |-> TABLE_ALREADY_EXISTS]

\* tblCreate has just returned TableAlreadyExists for a table with a row
\* whose handle is cached.
C8_ExistingWithCachedHandle ==
    /\ last.op = "tblCreate" /\ last.code = TABLE_ALREADY_EXISTS
    /\ db.m_tableFiles[T1] # NoHandle
    /\ rowSum[T1] >= 1

\* C9 as stated: when a party's local execution returned OK and the global
\* result is not OK, the party's database is, once the driver has returned,
\* in the state it had before the operation was executed.
C9_LocalSuccessRolledBack ==
    \A p \in Parties :
        (pc[p] = "returned" /\ localResult[p] = OK /\ globalResult[p] # OK) =>
            pdb[p].dir = txPre[p].dir

\* The global result the contract gives for the parties' codes.
ExpectedGlobal(codes) ==
    IF \A p \in Parties : codes[p] = OK THEN OK
    ELSE IF \E c \in {codes[p] : p \in Parties} \ {OK} :
                \A p \in Parties : codes[p] \in {OK, c}
    THEN CHOOSE c \in {codes[p] : p \in Parties} \ {OK} : TRUE
    ELSE CONSENSUS_ERROR

\* C10: the global result is OK if every local code is OK, the code c if
\* every code that is not OK equals c, and ConsensusError if two different
\* codes that are not OK occur, in whatever order the parties' codes are
\* given; (OK, OK, IoError) gives IoError and (OK, IoError, TableNotFound)
\* gives ConsensusError.
C10_GlobalResult ==
    /\ \A p \in Parties :
        pc[p] = "returned" => globalResult[p] = ExpectedGlobal(localResult)
    /\ (\A p \in Parties : pc[p] \in {"executed", "committed", "returned"}) =>
            \A o \in Orders :
                GlobalResult([i \in Parties |-> localResult[o[i]]])
                    = ExpectedGlobal(localResult)
    /\ GlobalResult(<<OK, OK, IO_ERROR>>) = IO_ERROR
    /\ GlobalResult(<<OK, IO_ERROR, TABLE_NOT_FOUND>>) = CONSENSUS_ERROR

\* A party whose execution returned OK was given ConsensusError: the two
\* other parties failed with different codes.
C10_ConsensusErrorReturned ==
    \E p \in Parties :
        /\ pc[p] = "returned" /\ localResult[p] = OK
        /\ globalResult[p] = CONSENSUS_ERROR

\* Party p is in a transaction the consensus service coordinates, and its
\* commit hook has run.
Committed(p) == pc[p] \in {"committed", "returned"}

\* C11: in a transaction the consensus service coordinates, rollback() is
\* called once if the party's local result is OK and the global result is
\* not OK, and not at all otherwise; the call is made after the party's
\* execute and before executeTransaction returns the global result.
C11_RollbackOnceOnDisagreement ==
    /\ [](\A p \in Parties :
            /\ Committed(p) =>
                    rollbackCalls[p] =
                        IF localResult[p] = OK /\ globalResult[p] # OK
                        THEN 1 ELSE 0
            /\ pc[p] = "returned" => retval[p] = globalResult[p]
            /\ pc[p] \in {"proposed", "executed"} => rollbackCalls[p] = 0)
    /\ [][\A p \in Parties :
            rollbackCalls'[p] > rollbackCalls[p] =>
                /\ pc[p] = "executed" /\ execCalls[p] = 1
                /\ pc'[p] = "committed"]_vars

\* Of three parties that have returned, one was rolled back and one, whose
\* own execution failed, was not.
C11_OneRolledBackOneNot ==
    /\ \A p \in Parties : pc[p] = "returned"
    /\ \E p, q \in Parties :
        /\ rollbackCalls[p] = 1 /\ localResult[p] = OK
        /\ rollbackCalls[q] = 0 /\ localResult[q] # OK

\* Party p's call of executeTransaction executed the operation once, on its
\* own, and returned the operation's result.
ExecutedLocally(p) ==
    /\ execCalls[p] = 1
    /\ rollbackCalls[p] = 0
    /\ \E f \in TxFaults(txOp) :
        /\ pdb[p] = execute(txPre[p], txOp, f).db
        /\ retval[p] = execute(txPre[p], txOp, f).code
    /\ \A q \in Parties \ {p} : pdb[q] = txPre[q]

\* C12 (as amended): if no consensus service is configured, or the process
\* facility yields no global id, executeTransaction executes the operation
\* locally once, without coordination, and returns its local result; if a
\* consensus service is configured and the context yields no process
\* facility, it returns MissingFacility and does not execute the operation.
C12_LocalExecutionOrMissingFacility ==
    \A p \in Parties :
        pc[p] = "returnedLocal" =>
            IF env[p] = "noProcessFacility"
            THEN /\ retval[p] = MISSING_FACILITY
                 /\ execCalls[p] = 0
                 /\ pdb = txPre
            ELSE ExecutedLocally(p)

\* C12 as stated: if the consensus service, the process facility or the
\* global id is not available, executeTransaction executes the operation
\* locally once, without coordination, and returns its local result.
C12_LocalExecution ==
    \A p \in Parties : pc[p] = "returnedLocal" => ExecutedLocally(p)

\* Without a global id, a party created the table on its own.
C12_CreatedWithoutGlobalId ==
    \E p \in Parties :
        /\ pc[p] = "returnedLocal" /\ env[p] = "noGlobalId"
        /\ txOp.op = "tblCreate" /\ retval[p] = OK
        /\ pdb[p] # txPre[p]

\* The connections for a key that are constructed and not yet destroyed.
LiveFor(k) == {c \in Alive(objs) : objs[c].key = k}

\* The connections for a key that some holder holds.
HeldFor(h, o, k) == {c \in 1..Len(o) : o[c].key = k /\ use_count(h, c) > 0}

\* C13 as stated: at every instant, also while openConnection and the drop
\* of the last reference to a connection run on different threads, at most
\* one connection per canonical path is constructed and not yet destroyed.
C13_OneLiveConnectionPerPath ==
    \A k \in Keys : Cardinality(LiveFor(k)) <= 1

C15_DeleteRemovesHandleAndFile ==
    \A t \in TableNames :
        IF pathExists(db, nameToPath(t))
        THEN /\ tblDelete(db, t, NoFault).code = OK
             /\ tblDelete(db, t, NoFault).db.m_tableFiles[t] = NoHandle
             /\ ~pathExists(tblDelete(db, t, NoFault).db, nameToPath(t))
        ELSE tblDelete(db, t, NoFault) = [db |-> db, code |-> TABLE_NOT_FOUND]

\* The arguments pass the checks insertRow makes before it looks for the
\* table.
InsertArgumentsPass(in) ==
    /\ in.valuesBatch # <<>>
    /\ Len(in.valuesBatch) = Len(in.valueAsColumnBatch)
    /\ \A b \in 1..Len(in.valuesBatch) :
            in.valuesBatch[b] # <<>> /\ validateValues(in.valuesBatch[b])

\* The call returned TableNotFound and changed nothing.
NotFound(d, r) == r.code = TABLE_NOT_FOUND /\ r.db = d

\* C16: on a table whose file does not exist, tblColCount, tblRowCount,
\* tblColNames, tblColTypes, and insertRow and readColumn with arguments
\* that pass the checks of the arguments, return TableNotFound, also after
\* tblDelete(T) returned OK on a connection that had opened T.
C16_MissingTableNotFound ==
    \A t \in TableNames :
        ~pathExists(db, nameToPath(t)) =>
            /\ NotFound(db, tblColCount(db, t, NoFault))
            /\ NotFound(db, tblRowCount(db, t, NoFault))
            /\ NotFound(db, tblColNames(db, t, NoFault))
            /\ NotFound(db, tblColTypes(db, t, NoFault))
            /\ \A in \in {i \in InsertInputs : InsertArgumentsPass(i)} :
                    NotFound(db, insertRow(db, t, in.valuesBatch,
                                 in.valueAsColumnBatch, NoFault, 0, "abort"))
            /\ \A c \in ColNrBatches \ {<<>>} :
                    NotFound(db, readColumn(db, t, c, NoFault))
            /\ \A c \in ColNameBatches \ {<<>>} :
                    NotFound(db, readColumnByName(db, t, c, NoFault))

\* tblDelete has just returned OK for a table whose handle is still in the
\* cache.
C16_DeletedWithCachedHandle ==
    /\ last.op = "tblDelete" /\ last.tbl = T1 /\ last.code = OK
    /\ db.m_tableFiles[T1] # NoHandle

\* C17 (as amended): tblExists(T) yields true only if the file of T exists
\* and is an HDF5 file, and false if there is no file; for a file that is
\* not an HDF5 file it returns GeneralError, with the out-parameter true.
C17_ExistsOrGeneralError ==
    \A t \in TableNames, status0 \in BOOLEAN :
        tblExists(db, t, NoFault, status0) =
            IF ~pathExists(db, nameToPath(t))
            THEN [code |-> OK, status |-> FALSE]
            ELSE IF FileOf(db, t).isHdf5
            THEN [code |-> OK, status |-> TRUE]
            ELSE [code |-> GENERAL_ERROR, status |-> TRUE]

\* C17 as stated: tblExists(T) yields true if and only if the file of T
\* exists and is an HDF5 file, and false in every other case.
C17_ExistsIffHdf5File ==
    \A t \in TableNames, status0 \in BOOLEAN :
        tblExists(db, t, NoFault, status0) =
            [code |-> OK,
             status |-> pathExists(db, nameToPath(t)) /\ FileOf(db, t).isHdf5]

\* A call was made on a table whose file is not an HDF5 file.
C17_CalledOnOtherFile ==
    /\ pathExists(db, nameToPath(T1)) /\ ~FileOf(db, T1).isHdf5
    /\ last.op = "read" /\ last.tbl = T1

\* Arguments of tblCreate the contract refuses: no names, no types,
\* neither, fewer types than names, no table name, an empty column name, a
\* column name of 65 bytes, two equal column names.
RefusedArguments ==
    { [tbl |-> T1, names |-> <<>>, types |-> <<TypeA>>],
      [tbl |-> T1, names |-> <<NameA>>, types |-> <<>>],
      [tbl |-> T1, names |-> <<>>, types |-> <<>>],
      [tbl |-> T1, names |-> <<NameA, NameB>>, types |-> <<TypeA>>],
      [tbl |-> <<>>, names |-> <<NameA, NameB>>, types |-> <<TypeA, TypeV>>],
      [tbl |-> T1, names |-> <<NameA, <<>>>>, types |-> <<TypeA, TypeB>>],
      [tbl |-> T1, names |-> <<LongName>>, types |-> <<TypeA>>],
      [tbl |-> T1, names |-> <<NameA, NameB, NameA>>,
       types |-> <<TypeA, TypeB, TypeA>>] }

\* C18: tblCreate returns InvalidArgument, creates no file and caches no
\* handle if names or types is empty, their lengths differ, the table name
\* is empty, a column name is empty or longer than 64 bytes, or two column
\* names are equal; the file system is not touched before these checks, so
\* that no failure of it and no existing file changes the result.
C18_InvalidArgumentBeforeFileSystem ==
    \A a \in RefusedArguments :
    \A f \in {NoFault, <<"pathExists", 0>>, <<"H5Fcreate", 0>>, <<"meta", 0>>} :
    \A removeFails \in BOOLEAN :
        tblCreate(db, a.tbl, a.names, a.types, f, removeFails)
            = [db |-> db, code |-> INVALID_ARGUMENT]

\* tblCreate has just returned InvalidArgument, once with no file of the
\* table, once on an existing table.
C18_RefusedOnExistingTable ==
    /\ last.op = "tblCreate" /\ last.code = INVALID_ARGUMENT
    /\ pathExists(db, nameToPath(T1))
    /\ db.m_tableFiles[T1] # NoHandle

\* Some value of the batches has a type that is not a type of the schema.
TypeOutsideSchema(types, valuesBatch) ==
    \E b \in 1..Len(valuesBatch) : \E i \in 1..Len(valuesBatch[b]) :
        \A j \in 1..Len(types) :
            ~TypeEquiv(valuesBatch[b][i].type, types[j])

\* The call returned InvalidArgument and left every file as it was.
Refused(d, r) == r.code = INVALID_ARGUMENT /\ r.db.dir = d.dir

\* C19 as stated: insertRow with a value whose type is not in the schema of
\* the table returns InvalidArgument and leaves the table unchanged, for a
\* type of fixed length and for one of variable length.
C19_TypeOutsideSchemaRefused ==
    \A t \in TableNames :
        schema[t] # NoSchema =>
            \A in \in {i \in InsertInputs :
                        /\ InsertArgumentsPass(i)
                        /\ TypeOutsideSchema(schema[t].types, i.valuesBatch)} :
            \A ub \in {"abort", "mismatch"} :
                Refused(db, insertRow(db, t, in.valuesBatch,
                                      in.valueAsColumnBatch, NoFault, 0, ub))

\* The table has two columns of the one-byte type, and no row.
TwoByteColumns(tbl) ==
    schema[tbl].types = <<TypeA, TypeA>> /\ rowSum[tbl] = 0 /\ ~rbFailed[tbl]

\* After the insertRow that returned r, the table has two rows, the column 0
\* read is [0x10, 0x20] and the column 1 read is [0x11, 0x21].
TwoRowsInserted(tbl, r) ==
    /\ r.code = OK
    /\ RowCountResult(r.db, tbl) = <<OK, 2>>
    /\ readColumn(r.db, tbl, <<0>>, NoFault).code = OK
    /\ readColumn(r.db, tbl, <<0>>, NoFault).out = <<<<Column0>>>>
    /\ readColumn(r.db, tbl, <<1>>, NoFault).code = OK
    /\ readColumn(r.db, tbl, <<1>>, NoFault).out = <<<<Column1>>>>

\* C20 (as amended): on a table with two columns of one one-byte type,
\* insertRow of one batch with asColumn = true and the one value
\* [0x10,0x11,0x20,0x21] returns InvalidArgument and changes nothing; with
\* the two values [0x10,0x20] and [0x11,0x21], one for each column, it
\* succeeds: tblRowCount becomes 2, readColumn(0) is [0x10,0x20] and
\* readColumn(1) is [0x11,0x21].
C20_ColumnsGivenOneValueEach ==
    \A t \in TableNames :
        TwoByteColumns(t) =>
            /\ Refused(db, insertRow(db, t, <<<<Block>>>>, <<TRUE>>, NoFault, 0,
                                     "abort"))
            /\ TwoRowsInserted(t, insertRow(db, t, <<<<Column0, Column1>>>>,
                                            <<TRUE>>, NoFault, 0, "abort"))

\* C20 as stated: on a table with two columns of one one-byte type,
\* insertRow of one batch with asColumn = true and the one value
\* [0x10,0x11,0x20,0x21] succeeds: tblRowCount becomes 2, readColumn(0) is
\* [0x10,0x20] and readColumn(1) is [0x11,0x21].
C20_BlockInOneValue ==
    \A t \in TableNames :
        TwoByteColumns(t) =>
            TwoRowsInserted(t, insertRow(db, t, <<<<Block>>>>, <<TRUE>>,
                                         NoFault, 0, "abort"))

\* The two columns were inserted, one value each, into the table of two
\* one-byte columns, whose dataset holds the rows (0x10, 0x11), (0x20, 0x21).
C20_TwoColumnsInserted ==
    /\ schema[T1].types = <<TypeA, TypeA>> /\ rowSum[T1] = 2
    /\ last.op = "insertRow" /\ last.code = OK
    /\ FileOf(db, T1).dsets[1].rows = <<<<<<16>>, <<17>>>>, <<<<32>>, <<33>>>>>>

\* The number of columns of the type in the schema the table was created
\* with.
StoredTypeCount(types, type) ==
    Cardinality({j \in 1..Len(types) : TypeEquiv(types[j], type)})

\* The batch supplies a number of columns that is not the table's, or a
\* number of columns of some type that is not the table's for that type.
SuppliedColumnsDiffer(types, values, asColumn) ==
    \/ BatchColCount(values, asColumn) # Len(types)
    \/ \E i \in 1..Len(values) :
            BatchTypeCount(values, asColumn, values[i].type)
                # StoredTypeCount(types, values[i].type)
    \/ \E j \in 1..Len(types) :
            BatchTypeCount(values, asColumn, types[j])
                # StoredTypeCount(types, types[j])

\* The inputs of insertRow that pass the checks of the arguments and have a
\* batch whose supplied columns differ from the columns of the schema.
MismatchedInputs(types) ==
    {in \in InsertInputs :
        /\ InsertArgumentsPass(in)
        /\ \E b \in 1..Len(in.valuesBatch) :
                SuppliedColumnsDiffer(types, in.valuesBatch[b],
                                      in.valueAsColumnBatch[b])}

\* C21 as stated: insertRow with a batch whose total number of supplied
\* columns differs from col_count, or whose number of supplied columns of
\* some type differs from the stored column count of that type, returns
\* InvalidArgument before any dataset is extended: the dataset extents and
\* tblRowCount are as before.
C21_ColumnMismatchRefused ==
    \A t \in TableNames :
        schema[t] # NoSchema =>
            \A in \in MismatchedInputs(schema[t].types) :
            \A ub \in {"abort", "mismatch"} :
                /\ Refused(db, insertRow(db, t, in.valuesBatch,
                                         in.valueAsColumnBatch, NoFault, 0, ub))
                /\ Extents(insertRow(db, t, in.valuesBatch,
                               in.valueAsColumnBatch, NoFault, 0, ub).db, t)
                        = Extents(db, t)
                /\ RowCountResult(insertRow(db, t, in.valuesBatch,
                               in.valueAsColumnBatch, NoFault, 0, ub).db, t)
                        = RowCountResult(db, t)

\* What tblColCount, tblColNames and tblColTypes return: codes and outputs.
SchemaResults(d, tbl) ==
    <<tblColCount(d, tbl, NoFault).code, tblColCount(d, tbl, NoFault).out,
      tblColNames(d, tbl, NoFault).code, tblColNames(d, tbl, NoFault).out,
      tblColTypes(d, tbl, NoFault).code, tblColTypes(d, tbl, NoFault).out>>

\* C22: after tblCreate(T) returned OK, tblColCount, tblColNames and
\* tblColTypes return the same results after every insertRow, readColumn and
\* introspection call, successful or failed, until T is deleted; and a call
\* that leaves the files unchanged leaves the results of the introspection
\* calls, tblRowCount included, unchanged.
C22_SchemaFixed ==
    [][\A t \in TableNames :
        /\ ((schema[t] # NoSchema /\ schema'[t] # NoSchema)
                \/ db'.dir = db.dir) =>
                SchemaResults(db', t) = SchemaResults(db, t)
        /\ (schema[t] # NoSchema /\ schema'[t] # NoSchema) =>
                tblColCount(db', t, NoFault).code = OK
        /\ db'.dir = db.dir =>
                RowCountResult(db', t) = RowCountResult(db, t)]_vars

\* A table of three columns holds a row, and an insertRow has just failed
\* with a dataset left extended.
C22_FailedInsertOnThreeColumns ==
    /\ schema[T1].names = <<NameA, NameB, NameC>>
    /\ rowSum[T1] >= 1
    /\ last.op = "insertRow" /\ last.tbl = T1 /\ last.code # OK
    /\ last.rollbackFailed

\* Batches of column numbers and of column names with an element that comes
\* twice: next to itself, apart, a column the table has and one it has not.
DuplicateNrBatches == {<<0, 0>>, <<1, 1>>, <<0, 1, 0>>, <<1, 0, 0>>, <<3, 3>>}
DuplicateNameBatches ==
    {<<NameA, NameA>>, <<NameB, NameB>>, <<NameA, NameB, NameA>>,
     <<NameB, NameA, NameA>>, <<LongName, LongName>>}

\* C23: on a table that was created, readColumn with a batch that holds the
\* same column number twice, or the same column name twice, returns
\* InvalidArgument and delivers no values.
C23_DuplicateColumnsRefused ==
    \A t \in TableNames :
        schema[t] # NoSchema =>
            /\ \A c \in DuplicateNrBatches :
                /\ readColumn(db, t, c, NoFault).code = INVALID_ARGUMENT
                /\ readColumn(db, t, c, NoFault).out = <<>>
            /\ \A c \in DuplicateNameBatches :
                /\ readColumnByName(db, t, c, NoFault).code = INVALID_ARGUMENT
                /\ readColumnByName(db, t, c, NoFault).out = <<>>

\* A read was made on a table of three columns that holds two rows.
C23_ReadOnTwoRows ==
    /\ last.op = "read" /\ last.tbl = T1
    /\ schema[T1].names = <<NameA, NameB, NameC>>
    /\ rowSum[T1] = 2

\* C24 as stated: for every table-level system call whose transaction
\* produced a code, with the services of the host at work, the code is in
\* the error store under the name of the data source; a call with an
\* out-reference of 8 bytes is not refused for its out-reference, the
\* reference receives that code and the status of the module is OK, whether
\* the code is OK or not.
C24_CodeRecordedAndReturned ==
    syscall.name \in TableSyscalls =>
        /\ syscall.refSize = SIZEOF_INT64 => syscall.refused # "refs"
        /\ (syscall.ecode \notin {"none", ABORTED}
            /\ syscall.hostFailure = "none" /\ ~syscall.overrun) =>
                /\ errors = syscall.ecode
                /\ syscall.refSize = SIZEOF_INT64 =>
                        outRef = syscall.ecode /\ moduleStatus = API_OK

\* Every column of the schema has a type of fixed length.
FixedLengthSchema(types) ==
    types # <<>> /\ \A j \in 1..Len(types) : ~isVariableLengthType(types[j])

\* A batch of one value for each column of the schema, of rows scalars each,
\* no two bytes of the batch equal.
ColumnValues(types, rows) ==
    [j \in 1..Len(types) |->
        [type |-> types[j],
         buffer |-> [b \in 1..(rows * types[j].size) |-> 16 * j + b]]]

\* The bytes of rows from..upto (from 1) of what readColumn returned for one
\* column of a type of fixed length.
RowsRead(r, size, from, upto) ==
    SubSeq(r.out[1][1].buffer, (from - 1) * size + 1, upto * size)

\* The insertRow that returned r appended to the n rows of the table the
\* rows of the batch of columns values: tblRowCount is n + rows, and
\* readColumn of each column returns in the new rows the scalars of the
\* value given for the column, in order.
ColumnsAppended(tbl, r, values, n, rows) ==
    /\ r.code = OK
    /\ RowCountResult(r.db, tbl) = <<OK, n + rows>>
    /\ \A j \in 1..Len(values) :
        /\ readColumn(r.db, tbl, <<j - 1>>, NoFault).code = OK
        /\ RowsRead(readColumn(r.db, tbl, <<j - 1>>, NoFault),
                    values[j].type.size, n + 1, n + rows) = values[j].buffer

\* The numbers of rows of a batch of columns.
BatchRows == 1..3

\* C25: on a table whose columns have types of fixed length, insertRow with
\* one batch with valueAsColumn = true of one value for each column, each of
\* R >= 1 scalars, appends R rows, and readColumn of column j then returns in
\* rows n..n+R-1 (n: the row count before) the R scalars of the value given
\* for column j, in order; also where two columns share a type and the block
\* of their columns is transposed in place, for R = 1 as well, and the
\* transposition ends.
C25_ColumnBatchAppended ==
    \A t \in TableNames :
        FixedLengthSchema(schema[t].types) =>
            \A rows \in BatchRows :
                ColumnsAppended(t,
                    insertRow(db, t, <<ColumnValues(schema[t].types, rows)>>,
                              <<TRUE>>, NoFault, 0, "abort"),
                    ColumnValues(schema[t].types, rows),
                    FileOf(db, t).row_count, rows)

\* A batch of two rows was given as columns to a table with two columns of
\* one type and a column of another, which had no row: the dataset of the
\* two columns holds the rows (1, 3) and (2, 4).
C25_ColumnsOfSharedTypeInserted ==
    /\ schema[T1].types = <<TypeA, TypeB, TypeA>>
    /\ rowSum[T1] = 2
    /\ last.op = "insertRow" /\ last.code = OK
    /\ \E i \in 1..Len(FileOf(db, T1).dsets) :
        FileOf(db, T1).dsets[i].rows = <<<<<<1>>, <<3>>>>, <<<<2>>, <<4>>>>>>

\* A batch of one value for each column of the schema, of rows scalars each
\* (a value of variable length: one byte string), the bytes counted from
\* base so that no two bytes of two batches are equal.
BatchValues(types, rows, base) ==
    [j \in 1..Len(types) |->
        [type |-> types[j],
         buffer |-> IF isVariableLengthType(types[j]) THEN <<base + 16 * j>>
                    ELSE [b \in 1..(rows * types[j].size) |->
                            base + 16 * j + b]]]

\* The batches a call of two batches is made of: a row, and columns of one
\* and of two rows.
BatchShapes == {<<FALSE, 1>>, <<TRUE, 1>>, <<TRUE, 2>>}

\* What the table holds, as read back: tblRowCount, and readColumn of each
\* column.
TableContent(d, tbl) ==
    <<RowCountResult(d, tbl),
      [j \in 1..Len(FileOf(d, tbl).colIndex) |->
          <<readColumn(d, tbl, <<j - 1>>, NoFault).code,
            readColumn(d, tbl, <<j - 1>>, NoFault).out>>]>>

\* insertRow of the batches one at a time, in order.
RECURSIVE insertRowEach(_, _, _, _)
insertRowEach(d, tbl, valuesBatch, vacBatch) ==
    IF valuesBatch = <<>> THEN Ret(d, OK, <<>>)
    ELSE IF insertRow(d, tbl, <<Head(valuesBatch)>>, <<Head(vacBatch)>>,
                      NoFault, 0, "abort").code # OK
    THEN insertRow(d, tbl, <<Head(valuesBatch)>>, <<Head(vacBatch)>>,
                   NoFault, 0, "abort")
    ELSE insertRowEach(insertRow(d, tbl, <<Head(valuesBatch)>>,
                                 <<Head(vacBatch)>>, NoFault, 0, "abort").db,
                       tbl, Tail(valuesBatch), Tail(vacBatch))

\* insertRow of two batches that returned OK left what the two inserts of
\* one batch leave.
SameAsEach(d, tbl, valuesBatch, vacBatch) ==
    insertRow(d, tbl, valuesBatch, vacBatch, NoFault, 0, "abort").code = OK =>
        /\ insertRowEach(d, tbl, valuesBatch, vacBatch).code = OK
        /\ TableContent(insertRow(d, tbl, valuesBatch, vacBatch,
                                  NoFault, 0, "abort").db, tbl)
            = TableContent(insertRowEach(d, tbl, valuesBatch, vacBatch).db,
                           tbl)

\* C26: insertRow with several batches that returns OK leaves the table
\* content (tblRowCount and readColumn of every column) that inserting the
\* same batches one at a time in the same order leaves, also when
\* consecutive batches have valueAsColumn = true and columns of one type.
C26_BatchesIndependent ==
    \A t \in TableNames :
        schema[t] # NoSchema =>
            \A s1 \in BatchShapes, s2 \in BatchShapes :
                SameAsEach(db, t,
                    <<BatchValues(schema[t].types, s1[2], 0),
                      BatchValues(schema[t].types, s2[2], 128)>>,
                    <<s1[1], s2[1]>>)

\* Two columns of the table are in one dataset.
SharesType(types) ==
    \E i, j \in 1..Len(types) : i # j /\ TypeEquiv(types[i], types[j])

\* The same, for every two batches but two consecutive batches of columns on
\* a table with two columns of one type.
C26_BatchesIndependentButColumnRuns ==
    \A t \in TableNames :
        schema[t] # NoSchema =>
            \A s1 \in BatchShapes, s2 \in BatchShapes :
                ~(s1[1] /\ s2[1] /\ SharesType(schema[t].types)) =>
                    SameAsEach(db, t,
                        <<BatchValues(schema[t].types, s1[2], 0),
                          BatchValues(schema[t].types, s2[2], 128)>>,
                        <<s1[1], s2[1]>>)

\* The handles of the per-table cache.
CachedHandles(d) == {d.m_tableFiles[t] : t \in TableNames} \ {NoHandle}

\* Every identifier the library holds open is in the cache and every handle
\* of the cache is open, and no identifier was closed that was not open.
HandlesHeld(d) == d.open = CachedHandles(d) /\ ~d.badClose

\* C27: every file handle the connection acquired (H5Fcreate of tblCreate,
\* H5Fopen of the lazy opening) is at any time either held in the per-table
\* cache or closed, and is closed once: also after a failed tblCreate, after
\* tblDelete followed by tblCreate of the same name, and when the connection
\* is dropped, which leaves no handle open.
C27_HandlesHeldOrClosed ==
    /\ HandlesHeld(db)
    /\ HandlesHeld(Destroyed(db, TableNames))
    /\ Destroyed(db, TableNames).open = {}

\* The table was deleted while its handle was cached: the handle is still
\* held, tblCreate of the same name closes it and holds the handle of the
\* new file only, and a tblCreate that fails after H5Fcreate holds none.
C27_CreateAfterDelete ==
    /\ last.op = "tblDelete" /\ last.code = OK
    /\ db.m_tableFiles[T1] # NoHandle /\ ~pathExists(db, nameToPath(T1))
    /\ db.open = {db.m_tableFiles[T1]}
    /\ tblCreate(db, T1, <<NameA, NameB>>, <<TypeA, TypeA>>, NoFault,
                 FALSE).code = OK
    /\ Cardinality(tblCreate(db, T1, <<NameA, NameB>>, <<TypeA, TypeA>>,
                             NoFault, FALSE).db.open) = 1
    /\ tblCreate(db, T1, <<NameA, NameB>>, <<TypeA, TypeA>>,
                 <<"meta", 0>>, FALSE).code # OK
    /\ tblCreate(db, T1, <<NameA, NameB>>, <<TypeA, TypeA>>,
                 <<"meta", 0>>, FALSE).db.open = {}

\* The row_count attribute of the table's file; NoFile if there is none.
RowCountAttr(d, tbl) ==
    IF d.dir[nameToPath(tbl)] = NoFile THEN NoFile
    ELSE FileOf(d, tbl).row_count

\* C28: insertRow writes the row_count attribute as its last step that can
\* fail, after every dataset was extended and written: an insertRow that
\* does not return OK leaves the attribute and what tblRowCount returns as
\* they were, also when the cleanup handler fails to restore the extent of a
\* dataset; and when setRowCount is the call that fails, every dataset had
\* been extended before, so that a dataset the cleanup handler fails to
\* restore is left longer than row_count.
C28_FailedInsertKeepsRowCount ==
    [][(last'.op = "insertRow" /\ last'.code # OK) =>
        /\ RowCountAttr(db', last'.tbl) = RowCountAttr(db, last'.tbl)
        /\ RowCountResult(db', last'.tbl) = RowCountResult(db, last'.tbl)
        /\ (last'.step = "setRowCount" /\ last'.rollbackFailed) =>
            \E i \in 1..Len(Extents(db', last'.tbl)) :
                Extents(db', last'.tbl)[i] > RowCountAttr(db', last'.tbl)]_vars

\* setRowCount failed, the cleanup handler failed to restore a dataset, and
\* the table has the row_count it had, fewer than the rows of the dataset.
C28_SetRowCountFailedRollbackFailed ==
    /\ last.op = "insertRow" /\ last.code = IO_ERROR
    /\ last.step = "setRowCount" /\ last.rollbackFailed
    /\ RowCountResult(db, T1) = <<OK, rowSum[T1]>>
    /\ \E i \in 1..Len(Extents(db, T1)) : Extents(db, T1)[i] > rowSum[T1]

\* Every dataset of the table has row_count rows.
ExtentsAreRowCount(d, tbl) ==
    \A i \in 1..Len(Extents(d, tbl)) :
        Extents(d, tbl)[i] = RowCountAttr(d, tbl)

\* C29: an insertRow that returns OK leaves every per-type dataset of the
\* table with its first dimension equal to the new row_count, the old one
\* plus the rows inserted, whatever the extents of the datasets were before
\* the call, as after an earlier failed insert whose rollback did not
\* restore them.
C29_InsertSetsExtents ==
    /\ (last.op = "insertRow" /\ last.code = OK) =>
            ExtentsAreRowCount(db, last.tbl)
    /\ \A t \in TableNames, in \in InsertInputs :
        \A r \in {insertRow(db, t, in.valuesBatch, in.valueAsColumnBatch,
                            NoFault, 0, "abort")} :
            r.code = OK =>
                /\ ExtentsAreRowCount(r.db, t)
                /\ RowCountAttr(r.db, t) = RowCountAttr(db, t)
                    + InsertedRowCount(in.valuesBatch, in.valueAsColumnBatch)

\* A failed insert whose rollback failed left a dataset longer than
\* row_count; the next insertRow returns OK and leaves every dataset with
\* the new row_count.
C29_InsertAfterFailedRollback ==
    /\ last.op = "insertRow" /\ last.code # OK /\ last.rollbackFailed
    /\ ~ExtentsAreRowCount(db, T1)
    /\ \E in \in InsertInputs :
        /\ insertRow(db, T1, in.valuesBatch, in.valueAsColumnBatch,
                     NoFault, 0, "abort").code = OK
        /\ ExtentsAreRowCount(insertRow(db, T1, in.valuesBatch,
                in.valueAsColumnBatch, NoFault, 0, "abort").db, T1)

\* The value map and the deleter map are in one-to-one correspondence: the
\* entry of each key has a deleter-map entry under its raw pointer that
\* refers to it, and each deleter-map entry refers to a value-map entry with
\* that raw pointer.
MapsCorrespond(vm, dm) ==
    /\ \A k \in Keys : vm[k] # NoEntry => dm[vm[k].first] = k
    /\ \A a \in Addrs :
        dm[a] # "" => vm[dm[a]] # NoEntry /\ vm[dm[a]].first = a

\* The assertions of get for a key whose value is absent or expired, with
\* the address operator new returns: m_deleterMap.erase of the expired
\* value's pointer erases an entry (c > 0), and the insert of the new
\* pointer into the deleter map takes place (r).
GetAssertions(vm, dm, key, addr) ==
    /\ vm[key] # NoEntry => dm[vm[key].first] # ""
    /\ dm[addr] = "" \/ (vm[key] # NoEntry /\ vm[key].first = addr)

\* C30: under every interleaving of get with the deleters of expired values
\* the value map and the deleter map are in one-to-one correspondence, the
\* assertions of get hold for every key and every address a new value can
\* have, and a deleter whose removePtr runs after get has replaced its
\* expired entry leaves the maps as they are, the new entry in place.
C30_MapsCorrespond ==
    /\ [](/\ MapsCorrespond(m_valueMap, m_deleterMap)
          /\ \A k \in Keys : ~CacheHit(m_valueMap, held, k) =>
                \A a \in FreeAddrs(objs) :
                    GetAssertions(m_valueMap, m_deleterMap, k, a))
    /\ [][\A t \in Threads :
            (/\ tpc[t] = "removePtr" /\ tpc'[t] = "delete"
             /\ m_valueMap[objs[dying[t]].key] # NoEntry
             /\ m_valueMap[objs[dying[t]].key].second # dying[t]) =>
                /\ m_valueMap' = m_valueMap
                /\ m_deleterMap' = m_deleterMap]_vars

\* The last shared_ptr to a connection was dropped and, before its deleter
\* called removePtr, get replaced the expired entry of its key by a new
\* connection: removePtr with the old pointer finds nothing and leaves the
\* new entry.
C30_DeleterAfterReplacement ==
    \E t \in Threads :
        /\ tpc[t] = "removePtr"
        /\ m_valueMap[objs[dying[t]].key] # NoEntry
        /\ m_valueMap[objs[dying[t]].key].second # dying[t]
        /\ objs[m_valueMap[objs[dying[t]].key].second].alive
        /\ m_deleterMap[objs[dying[t]].addr] = ""
        /\ removePtr(m_valueMap, m_deleterMap,
                     objs[dying[t]].addr).m_valueMap = m_valueMap

====
